---------------------------- MODULE Spec2Model ----------------------------
(***************************************************************************)
(* Model of the Space-Saving sketch of nchalv/distrib_top_n                *)
(* (src/sketches/stream_summary.py).                                       *)
(*                                                                         *)
(* A sketch is a record holding the fields of a StreamSummary object.  A   *)
(* Bucket object is identified by its count (the key under which the       *)
(* `buckets` dict holds it); Bucket.next / Bucket.prev, Element.parent_-   *)
(* bucket, min_bucket and max_bucket are references, i.e. a count or None. *)
(***************************************************************************)
EXTENDS Integers, Sequences, FiniteSets, TLC

(***************************************************************************)
(* Bounds of the model.                                                    *)
(***************************************************************************)
MaxCap == 3
MaxInserts == 7

Items == {"a", "b", "c", "d", "e"}
CapacityArgs == 0..MaxCap

(* Python's None, as a reference that is no bucket count. *)
None == -99
NoItem == "none"

(***************************************************************************)
(* dict helpers: d[k] = v, del d[k], {}                                    *)
(***************************************************************************)
EmptyMap == [k \in {} |-> 0]
Put(d, k, v) == [x \in (DOMAIN d) \cup {k} |-> IF x = k THEN v ELSE d[x]]
Del(d, k) == [x \in (DOMAIN d) \ {k} |-> d[x]]

(***************************************************************************)
(* Constructors.                                                           *)
(***************************************************************************)
Bucket(count) ==
    [count |-> count, elements |-> {}, next |-> None, prev |-> None]

Element(item, overestimation) ==
    [item |-> item, parent_bucket |-> None, overestimation |-> overestimation]

(* StreamSummary.__init__ (and SketchBase.__init__): no argument check. *)
StreamSummary(capacity) ==
    [capacity |-> capacity,
     elements |-> EmptyMap,
     buckets |-> EmptyMap,
     min_bucket |-> None,
     max_bucket |-> None,
     max_overestimation |-> 0,
     total_distinct_elements |-> 0]

(***************************************************************************)
(* Linked-list primitives.  new_bucket / prev_bucket / bucket are bucket   *)
(* references; the new bucket is already in s.buckets when spliced.        *)
(***************************************************************************)
insert_bucket_after(s, new_bucket, prev_bucket) ==
    IF prev_bucket = None
    THEN LET b1 == [s.buckets EXCEPT ![new_bucket].next = s.min_bucket]
             b2 == IF s.min_bucket # None
                   THEN [b1 EXCEPT ![s.min_bucket].prev = new_bucket]
                   ELSE b1
         IN  [s EXCEPT !.buckets = b2,
                       !.min_bucket = new_bucket,
                       !.max_bucket = IF s.max_bucket = None
                                      THEN new_bucket ELSE s.max_bucket]
    ELSE LET nx == s.buckets[prev_bucket].next
             b1 == [s.buckets EXCEPT ![new_bucket].next = nx,
                                     ![new_bucket].prev = prev_bucket]
             b2 == IF nx # None
                   THEN [b1 EXCEPT ![nx].prev = new_bucket]
                   ELSE b1
             b3 == [b2 EXCEPT ![prev_bucket].next = new_bucket]
         IN  [s EXCEPT !.buckets = b3,
                       !.max_bucket = IF prev_bucket = s.max_bucket
                                      THEN new_bucket ELSE s.max_bucket]

remove_bucket(s, bucket) ==
    LET bk == s.buckets[bucket]
        b1 == IF bk.prev # None
              THEN [s.buckets EXCEPT ![bk.prev].next = bk.next]
              ELSE s.buckets
        mn == IF bk.prev # None THEN s.min_bucket ELSE bk.next
        b2 == IF bk.next # None
              THEN [b1 EXCEPT ![bk.next].prev = bk.prev]
              ELSE b1
        mx == IF bk.next # None THEN s.max_bucket ELSE bk.prev
    IN  [s EXCEPT !.buckets = Del(b2, bucket),
                  !.min_bucket = mn,
                  !.max_bucket = mx]

(* while curr and curr.count < new_count: prev = curr; curr = curr.next *)
RECURSIVE ScanPrev(_, _, _, _)
ScanPrev(bks, prev, curr, new_count) ==
    IF curr # None /\ bks[curr].count < new_count
    THEN ScanPrev(bks, curr, bks[curr].next, new_count)
    ELSE prev

(* move_element that rebuilds the Element and so loses its overestimation. *)
move_element_reset_over(s, item, new_count) ==
    LET old_bucket == s.elements[item].parent_bucket
        s1 == [s EXCEPT !.buckets[old_bucket].elements = @ \ {item}]
        s2 == IF new_count \notin DOMAIN s1.buckets
              THEN LET s1b == [s1 EXCEPT !.buckets =
                                   Put(s1.buckets, new_count, Bucket(new_count))]
                       prev == ScanPrev(s1b.buckets, old_bucket,
                                        s1b.buckets[old_bucket].next, new_count)
                   IN  insert_bucket_after(s1b, new_count, prev)
              ELSE s1
        s3 == [s2 EXCEPT !.buckets[new_count].elements = @ \cup {item},
                         !.elements[item] =
                             [Element(item, 0) EXCEPT !.parent_bucket = new_count]]
    IN  IF s3.buckets[old_bucket].elements = {}
        THEN remove_bucket(s3, old_bucket)
        ELSE s3

(* move_element that leaves the emptied old bucket in the list. *)
move_element_keep_empty(s, item, new_count) ==
    LET old_bucket == s.elements[item].parent_bucket
        s1 == [s EXCEPT !.buckets[old_bucket].elements = @ \ {item}]
        s2 == IF new_count \notin DOMAIN s1.buckets
              THEN LET s1b == [s1 EXCEPT !.buckets =
                                   Put(s1.buckets, new_count, Bucket(new_count))]
                       prev == ScanPrev(s1b.buckets, old_bucket,
                                        s1b.buckets[old_bucket].next, new_count)
                   IN  insert_bucket_after(s1b, new_count, prev)
              ELSE s1
    IN  [s2 EXCEPT !.buckets[new_count].elements = @ \cup {item},
                   !.elements[item].parent_bucket = new_count]

move_element(s, item, new_count) ==
    LET old_bucket == s.elements[item].parent_bucket
        s1 == [s EXCEPT !.buckets[old_bucket].elements = @ \ {item}]
        s2 == IF new_count \notin DOMAIN s1.buckets
              THEN LET s1b == [s1 EXCEPT !.buckets =
                                   Put(s1.buckets, new_count, Bucket(new_count))]
                       prev == ScanPrev(s1b.buckets, old_bucket,
                                        s1b.buckets[old_bucket].next, new_count)
                   IN  insert_bucket_after(s1b, new_count, prev)
              ELSE s1
        s3 == [s2 EXCEPT !.buckets[new_count].elements = @ \cup {item},
                         !.elements[item].parent_bucket = new_count]
    IN  IF s3.buckets[old_bucket].elements = {}
        THEN remove_bucket(s3, old_bucket)
        ELSE s3

Max(x, y) == IF x >= y THEN x ELSE y

(***************************************************************************)
(* StreamSummary.insert.  `victim` is the item that                        *)
(* next(iter(self.min_bucket.elements)) yields: the iteration order of a   *)
(* Python set of str depends on the interpreter's hash seed and on the     *)
(* set's history, so the caller draws it from min_bucket.elements.         *)
(***************************************************************************)
insert_admit(s, item) ==
    LET s1 == [s EXCEPT !.elements = Put(s.elements, item, Element(item, 0))]
        s2 == IF 1 \notin DOMAIN s1.buckets
              THEN insert_bucket_after(
                       [s1 EXCEPT !.buckets = Put(s1.buckets, 1, Bucket(1))],
                       1, None)
              ELSE s1
    IN  [s2 EXCEPT !.buckets[1].elements = @ \cup {item},
                   !.elements[item].parent_bucket = 1,
                   !.total_distinct_elements = @ + 1]

(* insert_evict admitting the new item at the victim's count. *)
insert_evict_same_count(s, item, victim_item) ==
    LET mb == s.min_bucket
        new_count == s.buckets[mb].count
        overest == s.buckets[mb].count
        s1 == [s EXCEPT !.elements = Put(Del(s.elements, victim_item), item,
                                         Element(item, overest)),
                        !.buckets[mb].elements = @ \ {victim_item},
                        !.max_overestimation = Max(@, overest),
                        !.total_distinct_elements = @ + 1]
        s2 == IF new_count \notin DOMAIN s1.buckets
              THEN insert_bucket_after(
                       [s1 EXCEPT !.buckets =
                            Put(s1.buckets, new_count, Bucket(new_count))],
                       new_count, mb)
              ELSE s1
        s3 == [s2 EXCEPT !.buckets[new_count].elements = @ \cup {item},
                         !.elements[item].parent_bucket = new_count]
    IN  IF s3.buckets[s3.min_bucket].elements = {}
        THEN remove_bucket(s3, s3.min_bucket)
        ELSE s3

(* insert_evict recording one less than the evicted count as overestimation. *)
insert_evict_over_less(s, item, victim_item) ==
    LET mb == s.min_bucket
        new_count == s.buckets[mb].count + 1
        overest == s.buckets[mb].count - 1
        s1 == [s EXCEPT !.elements = Put(Del(s.elements, victim_item), item,
                                         Element(item, overest)),
                        !.buckets[mb].elements = @ \ {victim_item},
                        !.max_overestimation = Max(@, overest),
                        !.total_distinct_elements = @ + 1]
        s2 == IF new_count \notin DOMAIN s1.buckets
              THEN insert_bucket_after(
                       [s1 EXCEPT !.buckets =
                            Put(s1.buckets, new_count, Bucket(new_count))],
                       new_count, mb)
              ELSE s1
        s3 == [s2 EXCEPT !.buckets[new_count].elements = @ \cup {item},
                         !.elements[item].parent_bucket = new_count]
    IN  IF s3.buckets[s3.min_bucket].elements = {}
        THEN remove_bucket(s3, s3.min_bucket)
        ELSE s3

(* insert_evict recording the new count as overestimation. *)
insert_evict_over_newcount(s, item, victim_item) ==
    LET mb == s.min_bucket
        new_count == s.buckets[mb].count + 1
        overest == s.buckets[mb].count + 1
        s1 == [s EXCEPT !.elements = Put(Del(s.elements, victim_item), item,
                                         Element(item, overest)),
                        !.buckets[mb].elements = @ \ {victim_item},
                        !.max_overestimation = Max(@, overest),
                        !.total_distinct_elements = @ + 1]
        s2 == IF new_count \notin DOMAIN s1.buckets
              THEN insert_bucket_after(
                       [s1 EXCEPT !.buckets =
                            Put(s1.buckets, new_count, Bucket(new_count))],
                       new_count, mb)
              ELSE s1
        s3 == [s2 EXCEPT !.buckets[new_count].elements = @ \cup {item},
                         !.elements[item].parent_bucket = new_count]
    IN  IF s3.buckets[s3.min_bucket].elements = {}
        THEN remove_bucket(s3, s3.min_bucket)
        ELSE s3

(* insert_evict that does not refresh max_overestimation. *)
insert_evict_stale_max(s, item, victim_item) ==
    LET mb == s.min_bucket
        new_count == s.buckets[mb].count + 1
        overest == s.buckets[mb].count
        s1 == [s EXCEPT !.elements = Put(Del(s.elements, victim_item), item,
                                         Element(item, overest)),
                        !.buckets[mb].elements = @ \ {victim_item},
                        !.max_overestimation = @,
                        !.total_distinct_elements = @ + 1]
        s2 == IF new_count \notin DOMAIN s1.buckets
              THEN insert_bucket_after(
                       [s1 EXCEPT !.buckets =
                            Put(s1.buckets, new_count, Bucket(new_count))],
                       new_count, mb)
              ELSE s1
        s3 == [s2 EXCEPT !.buckets[new_count].elements = @ \cup {item},
                         !.elements[item].parent_bucket = new_count]
    IN  IF s3.buckets[s3.min_bucket].elements = {}
        THEN remove_bucket(s3, s3.min_bucket)
        ELSE s3

(* insert_evict that leaves the victim in min_bucket's element set. *)
insert_evict_keep_victim(s, item, victim_item) ==
    LET mb == s.min_bucket
        new_count == s.buckets[mb].count + 1
        overest == s.buckets[mb].count
        s1 == [s EXCEPT !.elements = Put(Del(s.elements, victim_item), item,
                                         Element(item, overest)),
                        !.max_overestimation = Max(@, overest),
                        !.total_distinct_elements = @ + 1]
        s2 == IF new_count \notin DOMAIN s1.buckets
              THEN insert_bucket_after(
                       [s1 EXCEPT !.buckets =
                            Put(s1.buckets, new_count, Bucket(new_count))],
                       new_count, mb)
              ELSE s1
        s3 == [s2 EXCEPT !.buckets[new_count].elements = @ \cup {item},
                         !.elements[item].parent_bucket = new_count]
    IN  IF s3.buckets[s3.min_bucket].elements = {}
        THEN remove_bucket(s3, s3.min_bucket)
        ELSE s3

(* insert_evict admitting the new item at count 1 instead of the victim's
   count + 1. *)
insert_evict_count_one(s, item, victim_item) ==
    LET mb == s.min_bucket
        new_count == 1
        overest == s.buckets[mb].count
        s1 == [s EXCEPT !.elements = Put(Del(s.elements, victim_item), item,
                                         Element(item, overest)),
                        !.buckets[mb].elements = @ \ {victim_item},
                        !.max_overestimation = Max(@, overest),
                        !.total_distinct_elements = @ + 1]
        s2 == IF new_count \notin DOMAIN s1.buckets
              THEN insert_bucket_after(
                       [s1 EXCEPT !.buckets =
                            Put(s1.buckets, new_count, Bucket(new_count))],
                       new_count, mb)
              ELSE s1
        s3 == [s2 EXCEPT !.buckets[new_count].elements = @ \cup {item},
                         !.elements[item].parent_bucket = new_count]
    IN  IF s3.buckets[s3.min_bucket].elements = {}
        THEN remove_bucket(s3, s3.min_bucket)
        ELSE s3

(* insert_evict recording the count of max_bucket as overestimation. *)
insert_evict_over_max(s, item, victim_item) ==
    LET mb == s.min_bucket
        new_count == s.buckets[mb].count + 1
        overest == s.buckets[s.max_bucket].count
        s1 == [s EXCEPT !.elements = Put(Del(s.elements, victim_item), item,
                                         Element(item, overest)),
                        !.buckets[mb].elements = @ \ {victim_item},
                        !.max_overestimation = Max(@, overest),
                        !.total_distinct_elements = @ + 1]
        s2 == IF new_count \notin DOMAIN s1.buckets
              THEN insert_bucket_after(
                       [s1 EXCEPT !.buckets =
                            Put(s1.buckets, new_count, Bucket(new_count))],
                       new_count, mb)
              ELSE s1
        s3 == [s2 EXCEPT !.buckets[new_count].elements = @ \cup {item},
                         !.elements[item].parent_bucket = new_count]
    IN  IF s3.buckets[s3.min_bucket].elements = {}
        THEN remove_bucket(s3, s3.min_bucket)
        ELSE s3

insert_evict(s, item, victim_item) ==
    LET mb == s.min_bucket
        new_count == s.buckets[mb].count + 1
        overest == s.buckets[mb].count
        s1 == [s EXCEPT !.elements = Put(Del(s.elements, victim_item), item,
                                         Element(item, overest)),
                        !.buckets[mb].elements = @ \ {victim_item},
                        !.max_overestimation = Max(@, overest),
                        !.total_distinct_elements = @ + 1]
        s2 == IF new_count \notin DOMAIN s1.buckets
              THEN insert_bucket_after(
                       [s1 EXCEPT !.buckets =
                            Put(s1.buckets, new_count, Bucket(new_count))],
                       new_count, mb)
              ELSE s1
        s3 == [s2 EXCEPT !.buckets[new_count].elements = @ \cup {item},
                         !.elements[item].parent_bucket = new_count]
    IN  IF s3.buckets[s3.min_bucket].elements = {}
        THEN remove_bucket(s3, s3.min_bucket)
        ELSE s3

(* A victim taken from max_bucket instead of min_bucket. *)
IterFirst_max(s) ==
    IF s.max_bucket = None THEN {NoItem}
    ELSE s.buckets[s.max_bucket].elements

(* The items next(iter(self.min_bucket.elements)) can yield. *)
IterFirst(s) ==
    IF s.min_bucket = None THEN {NoItem}
    ELSE s.buckets[s.min_bucket].elements

(* insert whose room test is off by one (<= capacity). *)
insert_room_le(s, item, victim_item) ==
    IF item \in DOMAIN s.elements
    THEN move_element(s, item,
                      s.buckets[s.elements[item].parent_bucket].count + 1)
    ELSE IF Cardinality(DOMAIN s.elements) <= s.capacity
         THEN insert_admit(s, item)
         ELSE IF s.min_bucket = None
              THEN s
              ELSE insert_evict(s, item, victim_item)

(* insert that drops an untracked item when the sketch is full. *)
insert_drop_when_full(s, item, victim_item) ==
    IF item \in DOMAIN s.elements
    THEN move_element(s, item,
                      s.buckets[s.elements[item].parent_bucket].count + 1)
    ELSE IF Cardinality(DOMAIN s.elements) < s.capacity
         THEN insert_admit(s, item)
         ELSE s

insert(s, item, victim_item) ==
    IF item \in DOMAIN s.elements
    THEN move_element(s, item,
                      s.buckets[s.elements[item].parent_bucket].count + 1)
    ELSE IF Cardinality(DOMAIN s.elements) < s.capacity
         THEN insert_admit(s, item)
         ELSE IF s.min_bucket = None
              THEN s
              ELSE insert_evict(s, item, victim_item)

(***************************************************************************)
(* Accessors.                                                              *)
(***************************************************************************)
RECURSIVE SumOver(_, _)
SumOver(f, S) ==
    IF S = {} THEN 0
    ELSE LET k == CHOOSE x \in S : TRUE
         IN  f[k] + SumOver(f, S \ {k})

(* total_count that counts each tracked item once. *)
total_count_distinct(s) ==
    SumOver([c \in DOMAIN s.buckets |-> Cardinality(s.buckets[c].elements)],
            DOMAIN s.buckets)

total_count(s) ==
    SumOver([c \in DOMAIN s.buckets |->
                s.buckets[c].count * Cardinality(s.buckets[c].elements)],
            DOMAIN s.buckets)

contains(s, item) == item \in DOMAIN s.elements

get_overestimation(s, item) ==
    IF item \in DOMAIN s.elements THEN s.elements[item].overestimation ELSE 0

get_max_overestimation(s) == s.max_overestimation

distinct_count(s) == s.total_distinct_elements

(* element.parent_bucket.count of a tracked item *)
count_of(s, item) == s.buckets[s.elements[item].parent_bucket].count


(***************************************************************************)
(* StreamSummary.insert_with_estimate.  The result pairs the sketch after  *)
(* the call with the exception it raised ("ok" when it returned).          *)
(***************************************************************************)
(* insert_with_estimate without the duplicate check. *)
insert_with_estimate_no_check(s, item, count, overestimation) ==
    LET s1 == [s EXCEPT !.elements = Put(s.elements, item,
                                         Element(item, overestimation)),
                        !.max_overestimation = Max(@, overestimation),
                        !.total_distinct_elements = @ + 1]
        s2 == IF count \notin DOMAIN s1.buckets
              THEN LET s1b == [s1 EXCEPT !.buckets =
                                   Put(s1.buckets, count, Bucket(count))]
                       prev == ScanPrev(s1b.buckets, None,
                                        s1b.min_bucket, count)
                   IN  insert_bucket_after(s1b, count, prev)
              ELSE s1
    IN  [s |-> [s2 EXCEPT !.buckets[count].elements = @ \cup {item},
                          !.elements[item].parent_bucket = count],
         err |-> "ok"]

insert_with_estimate(s, item, count, overestimation) ==
    IF item \in DOMAIN s.elements
    THEN [s |-> s, err |-> "ValueError"]
    ELSE LET s1 == [s EXCEPT !.elements = Put(s.elements, item,
                                              Element(item, overestimation)),
                             !.max_overestimation = Max(@, overestimation),
                             !.total_distinct_elements = @ + 1]
             s2 == IF count \notin DOMAIN s1.buckets
                   THEN LET s1b == [s1 EXCEPT !.buckets =
                                        Put(s1.buckets, count, Bucket(count))]
                            prev == ScanPrev(s1b.buckets, None,
                                             s1b.min_bucket, count)
                        IN  insert_bucket_after(s1b, count, prev)
                   ELSE s1
         IN  [s |-> [s2 EXCEPT !.buckets[count].elements = @ \cup {item},
                               !.elements[item].parent_bucket = count],
              err |-> "ok"]

(***************************************************************************)
(* StreamSummary.merge_element: same result shape as insert_with_estimate. *)
(***************************************************************************)
(* merge_element that moves a tracked item but keeps its old overestimation. *)
merge_element_keep_over(s, item, count, overestimation) ==
    IF item \in DOMAIN s.elements
    THEN LET new_count == count_of(s, item) + count
             new_overest == s.elements[item].overestimation
             s1 == move_element(s, item, new_count)
         IN  [s |-> [s1 EXCEPT !.elements[item].overestimation = new_overest,
                               !.max_overestimation = Max(@, new_overest)],
              err |-> "ok"]
    ELSE insert_with_estimate(s, item, count, overestimation)

merge_element(s, item, count, overestimation) ==
    IF item \in DOMAIN s.elements
    THEN LET new_count == count_of(s, item) + count
             new_overest == s.elements[item].overestimation + overestimation
             s1 == move_element(s, item, new_count)
         IN  [s |-> [s1 EXCEPT !.elements[item].overestimation = new_overest,
                               !.max_overestimation = Max(@, new_overest)],
              err |-> "ok"]
    ELSE insert_with_estimate(s, item, count, overestimation)

(***************************************************************************)
(* aggregate_summaries.                                                    *)
(*                                                                         *)
(* A float that the code obtains by dividing integers is kept as the exact *)
(* fraction <<numerator, denominator>> (denominator > 0).  `summaries` is  *)
(* a sequence of sketches and `orders` gives, for each of them, the order  *)
(* in which summary.elements.items() yields its keys (a dict yields its    *)
(* keys in insertion order).                                               *)
(***************************************************************************)
Frac(a, b) == <<a, b>>
Zero == Frac(0, 1)
One == Frac(1, 1)
FLess(x, y) == x[1] * y[2] < y[1] * x[2]
FLeq(x, y) == x[1] * y[2] <= y[1] * x[2]
FEq(x, y) == x[1] * y[2] = y[1] * x[2]
FAdd(x, y) == Frac(x[1] * y[2] + y[1] * x[2], x[2] * y[2])
FSub(x, y) == Frac(x[1] * y[2] - y[1] * x[2], x[2] * y[2])
(* a / N, b / N combined over the common denominator N, as the code's
   p_hat - over / N and p_hat + (N - C) / N *)
FSame(a, N) == Frac(a, N)

(* repr(item) of the str items, ascending *)
ReprOrder == <<"a", "b", "c", "d", "e">>
ReprRank(item) == CHOOSE i \in 1..Len(ReprOrder) : ReprOrder[i] = item

(* sorted(residuals): fractions ascending; stable insertion sort *)
RECURSIVE InsertFrac(_, _)
InsertFrac(sorted, x) ==
    IF sorted = <<>> THEN <<x>>
    ELSE IF FLess(x, Head(sorted))
         THEN <<x>> \o sorted
         ELSE <<Head(sorted)>> \o InsertFrac(Tail(sorted), x)

RECURSIVE SortedFracs(_)
SortedFracs(seq) ==
    IF seq = <<>> THEN <<>>
    ELSE InsertFrac(SortedFracs(SubSeq(seq, 1, Len(seq) - 1)), seq[Len(seq)])

(* seq[:n + 1] *)
Take_one_more(seq, n) ==
    SubSeq(seq, 1, IF n + 1 < Len(seq) THEN n + 1 ELSE Len(seq))

(* seq[:n] for n >= 0 *)
Take(seq, n) == SubSeq(seq, 1, IF n < Len(seq) THEN n ELSE Len(seq))

Range(seq) == {seq[i] : i \in 1..Len(seq)}

RECURSIVE SumSeq(_)
SumSeq(seq) == IF seq = <<>> THEN 0 ELSE Head(seq) + SumSeq(Tail(seq))

(* the (worker index, item) pairs in the order of
   for i, summary in enumerate(summaries): for item in summary.elements *)
RECURSIVE Traversal(_, _)
Traversal(orders, i) ==
    IF i > Len(orders) THEN <<>>
    ELSE [k \in 1..Len(orders[i]) |-> <<i, orders[i][k]>>]
         \o Traversal(orders, i + 1)

(* StatsPass that accumulates the item's count, not the worker's total, in C. *)
RECURSIVE StatsPass_c_count(_, _, _)
StatsPass_c_count(summaries, trav, k) ==
    IF k = 0
    THEN [keys |-> <<>>, stats_map |-> EmptyMap, R_t |-> EmptyMap]
    ELSE LET acc == StatsPass_c_count(summaries, trav, k - 1)
             i == trav[k][1]
             item == trav[k][2]
             summary == summaries[i]
             count == count_of(summary, item)
             old == IF item \in DOMAIN acc.stats_map
                    THEN acc.stats_map[item] ELSE <<0, 0, 0>>
             oldR == IF item \in DOMAIN acc.R_t THEN acc.R_t[item] ELSE {}
         IN  [keys |-> IF item \in DOMAIN acc.stats_map
                       THEN acc.keys ELSE Append(acc.keys, item),
              stats_map |-> Put(acc.stats_map, item,
                                <<old[1] + count,
                                  old[2] + count,
                                  old[3] + summary.elements[item].overestimation>>),
              R_t |-> Put(acc.R_t, item, oldR \cup {i - 1})]

(* lines 301-310: stats_map and R_t after the pairs trav[1..k]; `keys` is the
   key order of the stats_map dict *)
RECURSIVE StatsPass(_, _, _)
StatsPass(summaries, trav, k) ==
    IF k = 0
    THEN [keys |-> <<>>, stats_map |-> EmptyMap, R_t |-> EmptyMap]
    ELSE LET acc == StatsPass(summaries, trav, k - 1)
             i == trav[k][1]
             item == trav[k][2]
             summary == summaries[i]
             summary_total == total_count(summary)
             count == count_of(summary, item)
             old == IF item \in DOMAIN acc.stats_map
                    THEN acc.stats_map[item] ELSE <<0, 0, 0>>
             oldR == IF item \in DOMAIN acc.R_t THEN acc.R_t[item] ELSE {}
         IN  [keys |-> IF item \in DOMAIN acc.stats_map
                       THEN acc.keys ELSE Append(acc.keys, item),
              stats_map |-> Put(acc.stats_map, item,
                                <<old[1] + count,
                                  old[2] + summary_total,
                                  old[3] + summary.elements[item].overestimation>>),
              R_t |-> Put(acc.R_t, item, oldR \cup {i - 1})]

(* ItemStat whose ceiling adds the covered mass instead of the uncovered. *)
ItemStat_ceil_covered(item, f_hat, C_i, over, N) ==
    [item |-> item,
     f_hat |-> f_hat,
     p_hat |-> IF N > 0 THEN Frac(f_hat, N) ELSE Zero,
     p_floor |-> IF N > 0 THEN FSame(f_hat - over, N) ELSE Zero,
     p_ceil |-> IF N > 0 THEN FSame(f_hat + C_i, N) ELSE Zero,
     omega |-> IF N > 0 THEN Frac(C_i, N) ELSE Zero]

(* lines 312-318: one row of item_stats *)
ItemStat(item, f_hat, C_i, over, N) ==
    [item |-> item,
     f_hat |-> f_hat,
     p_hat |-> IF N > 0 THEN Frac(f_hat, N) ELSE Zero,
     p_floor |-> IF N > 0 THEN FSame(f_hat - over, N) ELSE Zero,
     p_ceil |-> IF N > 0 THEN FSame(f_hat + (N - C_i), N) ELSE Zero,
     omega |-> IF N > 0 THEN Frac(C_i, N) ELSE Zero]

(* key=lambda x: -x[2], without the repr tie-break *)
TopKeyLess_no_tie(x, y) == FLess(y.p_hat, x.p_hat)

(* key=lambda x: (-x[2], repr(x[0])) *)
TopKeyLess(x, y) ==
    \/ FLess(y.p_hat, x.p_hat)
    \/ FEq(x.p_hat, y.p_hat) /\ ReprRank(x.item) < ReprRank(y.item)

(* sorted(item_stats, key=...); stable insertion sort *)
RECURSIVE InsertTop(_, _)
InsertTop(sorted, x) ==
    IF sorted = <<>> THEN <<x>>
    ELSE IF TopKeyLess(x, Head(sorted))
         THEN <<x>> \o sorted
         ELSE <<Head(sorted)>> \o InsertTop(Tail(sorted), x)

RECURSIVE SortedTop(_)
SortedTop(seq) ==
    IF seq = <<>> THEN <<>>
    ELSE InsertTop(SortedTop(SubSeq(seq, 1, Len(seq) - 1)), seq[Len(seq)])

(* MergePass that merges the counts but drops the overestimations. *)
RECURSIVE MergePass_no_over(_, _, _, _)
MergePass_no_over(summaries, trav, k, capacity) ==
    IF k = 0 THEN StreamSummary(capacity)
    ELSE LET item == trav[k][2]
             summary == summaries[trav[k][1]]
         IN  merge_element(MergePass_no_over(summaries, trav, k - 1, capacity),
                           item,
                           count_of(summary, item),
                           0).s

(* lines 337-341: the merged sketch after the pairs trav[1..k] *)
RECURSIVE MergePass(_, _, _, _)
MergePass(summaries, trav, k, capacity) ==
    IF k = 0 THEN StreamSummary(capacity)
    ELSE LET item == trav[k][2]
             summary == summaries[trav[k][1]]
         IN  merge_element(MergePass(summaries, trav, k - 1, capacity),
                           item,
                           count_of(summary, item),
                           summary.elements[item].overestimation).s

(* min whose value on an empty sequence is 1, whatever the default. *)
RECURSIVE FMin_empty_one(_, _)
FMin_empty_one(seq, default) ==
    IF seq = <<>> THEN One
    ELSE LET m == FMin_empty_one(Tail(seq), Head(seq))
         IN  IF FLeq(Head(seq), m) THEN Head(seq) ELSE m

(* min(..., default) of a sequence of fractions *)
RECURSIVE FMin(_, _)
FMin(seq, default) ==
    IF seq = <<>> THEN default
    ELSE LET m == FMin(Tail(seq), Head(seq))
         IN  IF FLeq(Head(seq), m) THEN Head(seq) ELSE m

(* the 5% instead of the 95% quantile index *)
SpIndex_low(len) == (len * 5) \div 100

(* int(len * 0.95) *)
SpIndex(len) == (len * 95) \div 100

Min(x, y) == IF x <= y THEN x ELSE y

(* merging into the first input sketch: merged = summaries[0] *)
summaries_after_merge_into_first(summaries, merged) ==
    IF summaries = <<>> THEN summaries ELSE [summaries EXCEPT ![1] = merged]

(* lines 299-341: the input sketches when the call returns; they are only
   read (total_count(), elements.items()), merge_element is called on the
   fresh sketch of line 338 *)
summaries_after(summaries, merged) == summaries

aggregate_summaries(summaries, orders, capacity, n_arg) ==
    LET n == IF n_arg = None THEN capacity ELSE n_arg
        N == SumSeq([i \in 1..Len(summaries) |-> total_count(summaries[i])])
        trav == Traversal(orders, 1)
        pass == StatsPass(summaries, trav, Len(trav))
        item_stats == [k \in 1..Len(pass.keys) |->
                          LET st == pass.stats_map[pass.keys[k]]
                          IN  ItemStat(pass.keys[k], st[1], st[2], st[3], N)]
        top_n == Take(SortedTop(item_stats), n)
        top_n_keys == {top_n[k].item : k \in 1..Len(top_n)}
        (* 1 / n is evaluated for the rows outside top_n only *)
        outside == SelectSeq(item_stats, LAMBDA x : x.item \notin top_n_keys)
        challengers == SelectSeq(outside, LAMBDA x : FLess(Frac(1, n), x.p_ceil))
        C_t == top_n \o challengers
        omegas == [k \in 1..Len(C_t) |-> C_t[k].omega]
        residuals == SortedFracs([k \in 1..Len(C_t) |->
                                     FSub(One, C_t[k].omega)])
        tau_sp == IF C_t # <<>>
                  THEN residuals[Min(SpIndex(Len(residuals)),
                                     Len(residuals) - 1) + 1]
                  ELSE Zero
    IN  IF n = 0 /\ outside # <<>>
        THEN [err |-> "ZeroDivisionError",
              merged |-> StreamSummary(capacity),
              N |-> 0, item_stats |-> <<>>, R_t |-> EmptyMap,
              top_n |-> <<>>, C_t |-> <<>>,
              omega_min |-> Zero, tau_sp |-> Zero]
        ELSE [err |-> "ok",
              merged |-> MergePass(summaries, trav, Len(trav), capacity),
              N |-> N, item_stats |-> item_stats, R_t |-> pass.R_t,
              top_n |-> top_n, C_t |-> C_t,
              omega_min |-> FMin(omegas, Zero), tau_sp |-> tau_sp]

RECURSIVE Perms(_)
Perms(S) ==
    IF S = {} THEN {<<>>}
    ELSE UNION {{<<x>> \o p : p \in Perms(S \ {x})} : x \in S}

(***************************************************************************)
(* The second implementation, src/sketches/StreamSummary.py, which the     *)
(* static runner imports.  Bucket, Element, __init__, _insert_bucket_after,*)
(* _remove_bucket, the room branch of insert, insert_with_estimate and the *)
(* accessors are the same code as in stream_summary.py; the definitions    *)
(* below are the methods that differ.                                      *)
(***************************************************************************)
(* _move_element: the scan for the new bucket's place starts at min_bucket *)
(* _move_element that splices a new bucket right after the old one without
   scanning. *)
SS2_move_element_no_scan(s, item, new_count) ==
    LET old_bucket == s.elements[item].parent_bucket
        s1 == [s EXCEPT !.buckets[old_bucket].elements = @ \ {item}]
        s2 == IF new_count \notin DOMAIN s1.buckets
              THEN insert_bucket_after(
                       [s1 EXCEPT !.buckets =
                            Put(s1.buckets, new_count, Bucket(new_count))],
                       new_count, old_bucket)
              ELSE s1
        s3 == [s2 EXCEPT !.buckets[new_count].elements = @ \cup {item},
                         !.elements[item].parent_bucket = new_count]
    IN  IF s3.buckets[old_bucket].elements = {}
        THEN remove_bucket(s3, old_bucket)
        ELSE s3

SS2_move_element(s, item, new_count) ==
    LET old_bucket == s.elements[item].parent_bucket
        s1 == [s EXCEPT !.buckets[old_bucket].elements = @ \ {item}]
        s2 == IF new_count \notin DOMAIN s1.buckets
              THEN LET s1b == [s1 EXCEPT !.buckets =
                                   Put(s1.buckets, new_count, Bucket(new_count))]
                       prev == ScanPrev(s1b.buckets, None,
                                        s1b.min_bucket, new_count)
                   IN  insert_bucket_after(s1b, new_count, prev)
              ELSE s1
        s3 == [s2 EXCEPT !.buckets[new_count].elements = @ \cup {item},
                         !.elements[item].parent_bucket = new_count]
    IN  IF s3.buckets[old_bucket].elements = {}
        THEN remove_bucket(s3, old_bucket)
        ELSE s3

(* eviction branch of insert: total_distinct_elements is not incremented *)
SS2_insert_evict(s, item, victim_item) ==
    LET mb == s.min_bucket
        new_count == s.buckets[mb].count + 1
        overest == s.buckets[mb].count
        s1 == [s EXCEPT !.elements = Put(Del(s.elements, victim_item), item,
                                         Element(item, overest)),
                        !.buckets[mb].elements = @ \ {victim_item},
                        !.max_overestimation = Max(@, overest)]
        s2 == IF new_count \notin DOMAIN s1.buckets
              THEN insert_bucket_after(
                       [s1 EXCEPT !.buckets =
                            Put(s1.buckets, new_count, Bucket(new_count))],
                       new_count, mb)
              ELSE s1
        s3 == [s2 EXCEPT !.buckets[new_count].elements = @ \cup {item},
                         !.elements[item].parent_bucket = new_count]
    IN  IF s3.buckets[s3.min_bucket].elements = {}
        THEN remove_bucket(s3, s3.min_bucket)
        ELSE s3

SS2_insert(s, item, victim_item) ==
    IF item \in DOMAIN s.elements
    THEN SS2_move_element(s, item,
                          s.buckets[s.elements[item].parent_bucket].count + 1)
    ELSE IF Cardinality(DOMAIN s.elements) < s.capacity
         THEN insert_admit(s, item)
         ELSE IF s.min_bucket = None
              THEN s
              ELSE SS2_insert_evict(s, item, victim_item)

(* merge_element: max_overestimation is not updated for a tracked item *)
SS2_merge_element(s, item, count, overestimation) ==
    IF item \in DOMAIN s.elements
    THEN LET new_count == count_of(s, item) + count
             new_overest == s.elements[item].overestimation + overestimation
             s1 == SS2_move_element(s, item, new_count)
         IN  [s |-> [s1 EXCEPT !.elements[item].overestimation = new_overest],
              err |-> "ok"]
    ELSE insert_with_estimate(s, item, count, overestimation)

(* for summary in summaries: for bucket in summary.buckets.values():
       for item in bucket.elements
   as the set of the sequences of <<worker index, item>> this loop can run
   through: b_orders[i] is the key order of worker i's buckets dict, the
   order inside a bucket is the iteration order of a Python set. *)
RECURSIVE SS2_Traversals(_, _, _, _)
SS2_Traversals(summaries, b_orders, i, j) ==
    IF i > Len(summaries) THEN {<<>>}
    ELSE IF j > Len(b_orders[i])
         THEN SS2_Traversals(summaries, b_orders, i + 1, 1)
         ELSE LET els == summaries[i].buckets[b_orders[i][j]].elements
                  rest == SS2_Traversals(summaries, b_orders, i, j + 1)
              IN  {[k \in 1..Len(p) |-> <<i, p[k]>>] \o r :
                       p \in Perms(els), r \in rest}

(* lines 336-345 of StreamSummary.py: the merged sketch after trav[1..k] *)
RECURSIVE SS2_MergePass(_, _, _, _)
SS2_MergePass(summaries, trav, k, capacity) ==
    IF k = 0 THEN StreamSummary(capacity)
    ELSE LET item == trav[k][2]
             summary == summaries[trav[k][1]]
         IN  SS2_merge_element(
                 SS2_MergePass(summaries, trav, k - 1, capacity),
                 item,
                 count_of(summary, item),
                 summary.elements[item].overestimation).s

(***************************************************************************)
(* State.                                                                  *)
(*   ss          a StreamSummary object                                    *)
(*   ss2         a second StreamSummary object of the same capacity; only  *)
(*               SpecPair feeds it (with the calls made on ss)             *)
(* Observers of the calls made on ss:                                      *)
(*   true_count  number of insert(x) calls per item                        *)
(*   inserts     number of insert calls                                    *)
(*   est_calls   number of insert_with_estimate and merge_element calls    *)
(*   merge_args  (count, overestimation) passed to the last merge_element  *)
(*   s1_prefix   k when the insert calls so far are exactly the first k    *)
(*               items of scenario stream S1, Off otherwise                *)
(*   last        the last call: operation, item, evicted victim, error     *)
(* One window of m workers:                                                *)
(*   workers     the worker sketches (stream_summaries of a runner)        *)
(*   w_order     per worker, the key order of its elements dict            *)
(*   agg         the last aggregate_summaries call: its arguments, the     *)
(*               worker sketches as they were before it, and what it       *)
(*               returned or raised                                        *)
(* The runners:                                                            *)
(*   rn          the runner object and the position of evaluate_method's   *)
(*               window loop                                               *)
(*   ctl         an AdaptiveSSRunner whose controller methods are called   *)
(*               directly                                                  *)
(***************************************************************************)
VARIABLES ss, ss2, true_count, inserts, est_calls, merge_args, s1_prefix, last,
          workers, w_order, agg, rn, ctl

sketch_vars ==
    <<ss, ss2, true_count, inserts, est_calls, merge_args, s1_prefix, last>>
window_vars == <<workers, w_order, agg>>
runner_vars == <<rn, ctl>>
vars == <<sketch_vars, window_vars, runner_vars>>

(* Scenario S1 of the specification: capacity 3 and this stream. *)
S1 == <<"a", "b", "c", "a", "b", "a", "d", "a", "e", "a">>
Off == Len(S1) + 1

MaxEstInserts == 2
MaxEstCalls == 2
MaxEstCount == 2
MaxEstOver == 1
EstItems == {"a", "b", "c"}
MaxMergeInserts == 1
MergeItems == {"a", "b"}

NumWorkers == 2
MaxWorkerInserts == 4
MaxN == 2
WorkerItems == {"a", "b", "c"}
(* (capacity, n) passed to aggregate_summaries: n omitted (None) with
   capacity 0, or capacity n * m with an explicit n *)
AggArgs == {<<0, None>>} \cup {<<n * NumWorkers, n>> : n \in 1..MaxN}

(* The lists passed as `summaries`: the workers in any order, or no sketch. *)
AggInputs == Perms(1..NumWorkers) \cup {<<>>}

NoAgg ==
    [called |-> FALSE, input |-> <<>>, capacity |-> 0, n |-> None,
     before |-> <<>>,
     result |-> aggregate_summaries(<<>>, <<>>, 0, None)]
EstCounts == 0..MaxEstCount
EstOvers == 0..MaxEstOver

Call(op, item, victim, err) ==
    [op |-> op, item |-> item, victim |-> victim, err |-> err]

(* keys of a dict after a call: deleted keys leave, new keys go last *)
DictOrder(order, after) ==
    LET kept == SelectSeq(order, LAMBDA x : x \in DOMAIN after.elements)
        new == (DOMAIN after.elements) \ Range(order)
    IN  IF new = {} THEN kept ELSE Append(kept, CHOOSE x \in new : TRUE)

(***************************************************************************)
(* The runners (src/runners) and the window loop of evaluate_method.       *)
(*                                                                         *)
(* A runner object is a record.  L, L_t, L_prev and q are floats, kept as  *)
(* exact fractions; prev_freqs and freqs are dicts; estimated_counts_and_- *)
(* freqs is the sequence of its (key, count, freq) entries in dict order.  *)
(* The value compute_jsd returns (scipy's jensenshannon squared) is not    *)
(* computed: where the code calls it, the caller draws it from JsdValues.  *)
(***************************************************************************)
MaxRunN == 2
MaxRunInserts == 3
NumWindows == 2
JsdDen == 2
RunItems == {"a", "b", "c"}
RunnerKinds == {"adaptive", "static"}
Alphas == {Frac(1, 2), Frac(7, 10)}
(* main.py: AdaptiveSSRunner(n=n, m=m, alpha=0.5) *)
MainAlpha == Frac(1, 2)
(* compute_jsd: "bounded in [0, 1]" *)
JsdValues == {Frac(k, JsdDen) : k \in 0..JsdDen}

(* AdaptiveSSRunner.__init__ / StaticSSRunner.__init__, and the loop state
   of evaluate_method: window is the index of the current window, pc is
   "loop" at the head of the for loop, "insert" inside a window and
   "raised" once an exception has left the loop; initialized and finalized
   count the initialize_sketches and finalize_window calls made so far. *)
NewRunner(kind, n, alpha) ==
    [kind |-> kind, m |-> NumWorkers, n |-> n, q |-> Frac(n, 1),
     alpha |-> alpha,
     stream_summaries |-> <<>>, orders |-> <<>>, b_orders |-> <<>>,
     estimated_counts_and_freqs |-> <<>>,
     prev_freqs |-> EmptyMap, freqs |-> EmptyMap,
     L_prev |-> Zero, L_t |-> Zero, L |-> Zero,
     window |-> 0, pc |-> "loop", inserted |-> 0, err |-> "ok",
     op |-> "__init__", initialized |-> 0, finalized |-> 0,
     agg_capacity |-> 0, merged |-> StreamSummary(0), N |-> 0]

NoRunner == [NewRunner("none", 0, Zero) EXCEPT !.pc = "none"]
NoCtl == NoRunner

(* len(self.elements) < self.capacity with a float capacity admits exactly
   ceil(capacity) items; the sketch record keeps that integer. *)
CapacityOf(q) ==
    IF q[1] % q[2] = 0 THEN q[1] \div q[2] ELSE (q[1] \div q[2]) + 1

(* initialize_sketches: m fresh sketches of capacity self.q *)
initialize_sketches(r) ==
    [r EXCEPT !.stream_summaries =
                  [i \in 1..r.m |-> StreamSummary(CapacityOf(r.q))],
              !.orders = [i \in 1..r.m |-> <<>>],
              !.b_orders = [i \in 1..r.m |-> <<>>],
              !.op = "initialize_sketches",
              !.initialized = @ + 1]

(* keys of the buckets dict after a call *)
BucketOrder(order, after) ==
    LET kept == SelectSeq(order, LAMBDA c : c \in DOMAIN after.buckets)
        new == (DOMAIN after.buckets) \ Range(order)
    IN  IF new = {} THEN kept ELSE Append(kept, CHOOSE c \in new : TRUE)

(* insert_item: self.stream_summaries[partition_id].insert(item), with the
   insert of the implementation the runner imports *)
insert_item(r, i, item, victim_item) ==
    LET after == IF r.kind = "static"
                 THEN SS2_insert(r.stream_summaries[i], item, victim_item)
                 ELSE insert(r.stream_summaries[i], item, victim_item)
    IN  [r EXCEPT !.stream_summaries[i] = after,
                  !.orders[i] = DictOrder(@, after),
                  !.b_orders[i] = BucketOrder(@, after),
                  !.inserted = @ + 1,
                  !.op = "insert_item"]

RECURSIVE MaxFrac(_, _)
MaxFrac(seq, default) ==
    IF seq = <<>> THEN default
    ELSE LET mx == MaxFrac(Tail(seq), Head(seq))
         IN  IF FLess(Head(seq), mx) THEN mx ELSE Head(seq)

(* _update_L: jsds[i] is compute_jsd(local_dist of worker i, estimated
   relative freqs) *)
update_L(r, jsds) == [r EXCEPT !.L = MaxFrac(jsds, Zero), !.op = "_update_L"]

(* _update_L_t: the else value 0.0 when prev_freqs is empty; otherwise
   self.alpha * self.L_prev is evaluated and then the name `alpha`, which
   is neither a local nor a global of the module *)
update_L_t(r) ==
    IF r.prev_freqs # EmptyMap
    THEN [r EXCEPT !.err = "NameError", !.op = "_update_L_t"]
    ELSE [r EXCEPT !.L_t = Zero, !.op = "_update_L_t"]

FMul(x, y) == Frac(x[1] * y[1], x[2] * y[2])

(* _update_q with the factor 1 - L + L_t *)
update_q_minus_L(r) ==
    [r EXCEPT !.q = FMul(Frac(r.n, 1), FAdd(FSub(One, r.L), r.L_t)),
              !.op = "_update_q"]

(* _update_q with one more slot than the formula gives *)
update_q_plus_one(r) ==
    [r EXCEPT !.q = FAdd(FMul(Frac(r.n, 1), FAdd(FAdd(One, r.L), r.L_t)), One),
              !.op = "_update_q"]

(* _update_q: self.q = self.n * (1 + self.L + self.L_t) *)
update_q(r) ==
    [r EXCEPT !.q = FMul(Frac(r.n, 1), FAdd(FAdd(One, r.L), r.L_t)),
              !.op = "_update_q"]

(* keys of the stats dict aggregate_summaries returns *)
StatsKeys == {"N", "item_stats", "R_t", "top_n", "C_t", "omega_min", "tau_sp"}

(* sorted(agg.topk(), key=lambda x: -x[1]): the tracked items by descending
   count; items of one bucket come in the set's iteration order *)
TopkOrders(s) ==
    {p \in Perms(DOMAIN s.elements) :
        \A j, k \in 1..Len(p) : j < k => count_of(s, p[j]) >= count_of(s, p[k])}

(* {key: (count, count / total) for key, count in sorted_items} *)
EstimatedCountsAndFreqs(s, sorted_items) ==
    [k \in 1..Len(sorted_items) |->
        [key |-> sorted_items[k],
         count |-> count_of(s, sorted_items[k]),
         freq |-> Frac(count_of(s, sorted_items[k]), total_count(s))]]

(* lines 31-39 of AdaptiveSSRunner.finalize_window, res being what
   aggregate_summaries returned and sorted_items the order drawn from
   TopkOrders *)
publish(r, res, sorted_items) ==
    [r EXCEPT !.L_prev = r.L_t,
              !.prev_freqs = r.freqs,
              !.agg_capacity = r.n * r.m,
              !.merged = res.merged,
              !.N = res.N,
              !.estimated_counts_and_freqs =
                  EstimatedCountsAndFreqs(res.merged, sorted_items),
              !.op = "finalize_window",
              !.finalized = @ + 1]

(* lines 48-50: _update_L(), _update_L_t(), _update_q() *)
update_q_unless_raised(r) ==
    IF r.err # "ok"
    THEN [r EXCEPT !.op = "finalize_window"]
    ELSE [update_q(r) EXCEPT !.op = "finalize_window"]

controller_update(r, jsds) == update_q_unless_raised(update_L_t(update_L(r, jsds)))

(* lines 34-51, after the aggregate_summaries call of line 33: line 40
   reads stats["top_g"], line 42 takes min over item_stats *)
finalize_after_aggregate(r, res, sorted_items, jsds) ==
    IF res.err # "ok"
    THEN [r EXCEPT !.L_prev = r.L_t, !.prev_freqs = r.freqs,
                   !.err = res.err, !.op = "finalize_window",
                   !.finalized = @ + 1]
    ELSE IF "top_g" \notin StatsKeys
         THEN [publish(r, res, sorted_items) EXCEPT !.err = "KeyError"]
         ELSE IF res.item_stats = <<>>
              THEN [publish(r, res, sorted_items) EXCEPT !.err = "ValueError"]
              ELSE controller_update(publish(r, res, sorted_items), jsds)

(* the call of line 33: aggregate_summaries(self.stream_summaries,
   self.n*self.m, self.n) *)
aggregate_adaptive(r) ==
    aggregate_summaries(r.stream_summaries, r.orders, r.n * r.m, r.n)

(* the values the compute_jsd calls of _update_L can return, one per worker;
   _update_L is called at line 48, after stats["top_g"] has been read *)
JsdDraws(r) ==
    IF "top_g" \in StatsKeys THEN [1..r.m -> JsdValues] ELSE {<<>>}

(* AdaptiveSSRunner.finalize_window; jsds are the values compute_jsd would
   return in _update_L *)
finalize_window_adaptive(r, sorted_items, jsds) ==
    finalize_after_aggregate(r, aggregate_adaptive(r), sorted_items, jsds)

(* StaticSSRunner.finalize_window: aggregate_summaries of StreamSummary.py
   returns the pair (merged, global_stats), which line 24 binds to `agg`;
   agg.total_count() of line 25 is an attribute lookup on a tuple. *)
finalize_window_static(r, trav) ==
    [r EXCEPT !.agg_capacity = r.n,
              !.merged = SS2_MergePass(r.stream_summaries, trav, Len(trav), r.n),
              !.N = SumSeq([i \in 1..Len(r.stream_summaries) |->
                               total_count(r.stream_summaries[i])]),
              !.err = "AttributeError",
              !.op = "finalize_window",
              !.finalized = @ + 1]

(* The item a call removed from the elements dict, NoItem when none. *)
Evicted(before, after) ==
    LET gone == (DOMAIN before.elements) \ (DOMAIN after.elements)
    IN  IF gone = {} THEN NoItem ELSE CHOOSE x \in gone : TRUE

Init ==
    /\ \E q \in CapacityArgs :
          /\ ss = StreamSummary(q)
          /\ ss2 = StreamSummary(q)
          /\ workers = [i \in 1..NumWorkers |-> StreamSummary(q)]
    /\ true_count = [x \in Items |-> 0]
    /\ inserts = 0
    /\ est_calls = 0
    /\ merge_args = <<0, 0>>
    /\ s1_prefix = 0
    /\ last = Call("new", NoItem, NoItem, "ok")
    /\ w_order = [i \in 1..NumWorkers |-> <<>>]
    /\ agg = NoAgg
    /\ rn = NoRunner
    /\ ctl = NoCtl

NextOfS1(item) ==
    s1_prefix < Len(S1) /\ S1[s1_prefix + 1] = item

(* Streams are explored up to MaxInserts calls; stream S1 is run to its end. *)
CanInsert(item) == inserts < MaxInserts \/ NextOfS1(item)

InsertInto(item) ==
    /\ CanInsert(item)
    /\ \E victim_item \in IterFirst(ss) :
          /\ ss' = insert(ss, item, victim_item)
          /\ last' = Call("insert", item, Evicted(ss, ss'), "ok")
    /\ true_count' = [true_count EXCEPT ![item] = @ + 1]
    /\ inserts' = inserts + 1
    /\ s1_prefix' = IF NextOfS1(item) THEN s1_prefix + 1 ELSE Off
    /\ UNCHANGED <<est_calls, merge_args, window_vars, runner_vars>>

(* ss.insert(item) *)
Insert(item) ==
    /\ InsertInto(item)
    /\ UNCHANGED ss2

(* ss.insert(item); ss2.insert(item) *)
InsertBoth(item) ==
    /\ InsertInto(item)
    /\ \E victim_item \in IterFirst(ss2) :
          ss2' = insert(ss2, item, victim_item)

(* ss.insert(item), in the runs that also call insert_with_estimate *)
EstInsert(item) ==
    /\ inserts < MaxEstInserts
    /\ Insert(item)

(* ss.insert_with_estimate(item, count, overestimation) *)
InsertWithEstimate(item, count, overestimation) ==
    /\ est_calls < MaxEstCalls
    /\ LET r == insert_with_estimate(ss, item, count, overestimation)
       IN  /\ ss' = r.s
           /\ last' = Call("insert_with_estimate", item, Evicted(ss, r.s), r.err)
    /\ est_calls' = est_calls + 1
    /\ UNCHANGED <<ss2, true_count, inserts, s1_prefix, merge_args, window_vars, runner_vars>>

(* ss.insert(item), in the runs that also call merge_element *)
MergeInsert(item) ==
    /\ inserts < MaxMergeInserts
    /\ Insert(item)

(* ss.merge_element(item, count, overestimation) *)
MergeElement(item, count, overestimation) ==
    /\ est_calls < MaxEstCalls
    /\ LET r == merge_element(ss, item, count, overestimation)
       IN  /\ ss' = r.s
           /\ last' = Call("merge_element", item, Evicted(ss, r.s), r.err)
    /\ est_calls' = est_calls + 1
    /\ merge_args' = <<count, overestimation>>
    /\ UNCHANGED <<ss2, true_count, inserts, s1_prefix, window_vars, runner_vars>>

(***************************************************************************)
(* The two implementations side by side: ss is a StreamSummary of          *)
(* sketches/stream_summary.py, ss2 one of sketches/StreamSummary.py, and   *)
(* both receive the same calls with valid arguments (count >= 1,           *)
(* 0 <= overestimation <= count).  When both have the same candidates for  *)
(* next(iter(min_bucket.elements)) they evict the same victim.             *)
(***************************************************************************)
MaxOpsCalls == 3
OpsItems == {"a", "b", "c"}
OpsCounts == {1, 2}
ValidArgs ==
    {<<count, overestimation>> \in OpsCounts \X (0..2) :
        overestimation <= count}

OpsCalls == inserts + est_calls

(* ss.insert(item); ss2.insert(item) *)
OpsInsert(item) ==
    /\ OpsCalls < MaxOpsCalls
    /\ \E victim_item \in IterFirst(ss), victim_item2 \in IterFirst(ss2) :
          /\ victim_item \in IterFirst(ss2) => victim_item2 = victim_item
          /\ ss' = insert(ss, item, victim_item)
          /\ ss2' = SS2_insert(ss2, item, victim_item2)
          /\ last' = Call("insert", item, Evicted(ss, ss'), "ok")
    /\ true_count' = [true_count EXCEPT ![item] = @ + 1]
    /\ inserts' = inserts + 1
    /\ s1_prefix' = Off
    /\ UNCHANGED <<est_calls, merge_args, window_vars, runner_vars>>

(* ss.insert_with_estimate(item, count, overestimation), and the same call
   on ss2 *)
OpsInsertWithEstimate(item, count, overestimation) ==
    /\ OpsCalls < MaxOpsCalls
    /\ LET r == insert_with_estimate(ss, item, count, overestimation)
           r2 == insert_with_estimate(ss2, item, count, overestimation)
       IN  /\ ss' = r.s
           /\ ss2' = r2.s
           /\ last' = Call("insert_with_estimate", item, Evicted(ss, r.s), r.err)
    /\ est_calls' = est_calls + 1
    /\ merge_args' = <<count, overestimation>>
    /\ s1_prefix' = Off
    /\ UNCHANGED <<true_count, inserts, window_vars, runner_vars>>

(* ss.merge_element(item, count, overestimation), and the same call on ss2 *)
OpsMergeElement(item, count, overestimation) ==
    /\ OpsCalls < MaxOpsCalls
    /\ LET r == merge_element(ss, item, count, overestimation)
           r2 == SS2_merge_element(ss2, item, count, overestimation)
       IN  /\ ss' = r.s
           /\ ss2' = r2.s
           /\ last' = Call("merge_element", item, Evicted(ss, r.s), r.err)
    /\ est_calls' = est_calls + 1
    /\ merge_args' = <<count, overestimation>>
    /\ s1_prefix' = Off
    /\ UNCHANGED <<true_count, inserts, window_vars, runner_vars>>

WorkerTotal == SumSeq([i \in 1..NumWorkers |-> total_count(workers[i])])

(* stream_summaries[partition_id].insert(item), before the window closes *)
WorkerInsert(i, item) ==
    /\ ~agg.called
    /\ WorkerTotal < MaxWorkerInserts
    /\ \E victim_item \in IterFirst(workers[i]) :
          LET after == insert(workers[i], item, victim_item)
          IN  /\ workers' = [workers EXCEPT ![i] = after]
              /\ w_order' = [w_order EXCEPT ![i] = DictOrder(@, after)]
    /\ UNCHANGED <<sketch_vars, agg, runner_vars>>

(* aggregate_summaries([workers[i] for i in input], capacity, n) *)
Aggregate(input, capacity, n) ==
    /\ ~agg.called
    /\ LET summaries == [k \in 1..Len(input) |-> workers[input[k]]]
           result == aggregate_summaries(
                         summaries,
                         [k \in 1..Len(input) |-> w_order[input[k]]],
                         capacity, n)
           after == summaries_after(summaries, result.merged)
       IN  /\ agg' = [called |-> TRUE, input |-> input, capacity |-> capacity,
                      n |-> n, before |-> workers, result |-> result]
           /\ workers' = [i \in 1..NumWorkers |->
                             IF \E k \in 1..Len(input) : input[k] = i
                             THEN after[CHOOSE k \in 1..Len(input) :
                                            input[k] = i]
                             ELSE workers[i]]
    /\ w_order' = w_order
    /\ UNCHANGED <<sketch_vars, runner_vars>>

(***************************************************************************)
(* main.py and evaluate_method: one runner, then for each window           *)
(* initialize_sketches, the inserts, finalize_window.  There is no         *)
(* try/except around the loop body: an exception leaves the loop.          *)
(***************************************************************************)
Construct(kind, n, alpha) ==
    /\ rn.kind = "none"
    /\ rn' = NewRunner(kind, n, alpha)
    /\ UNCHANGED <<sketch_vars, window_vars, ctl>>

InitializeSketches ==
    /\ rn.pc = "loop"
    /\ rn.window < NumWindows
    /\ rn' = [initialize_sketches(rn) EXCEPT !.pc = "insert", !.inserted = 0]
    /\ UNCHANGED <<sketch_vars, window_vars, ctl>>

InsertItem(partition_id, item) ==
    /\ rn.pc = "insert"
    /\ rn.inserted < MaxRunInserts
    /\ \E victim_item \in IterFirst(rn.stream_summaries[partition_id]) :
          rn' = insert_item(rn, partition_id, item, victim_item)
    /\ UNCHANGED <<sketch_vars, window_vars, ctl>>

(* runner.finalize_window(window), then the rest of the loop body (which
   changes no state of the runner) *)
AfterFinalize(r) ==
    IF r.err # "ok"
    THEN [r EXCEPT !.pc = "raised"]
    ELSE [r EXCEPT !.pc = "loop", !.window = @ + 1]

FinalizeWindow ==
    /\ rn.pc = "insert"
    /\ \/ /\ rn.kind = "adaptive"
          /\ \E jsds \in JsdDraws(rn),
                sorted_items \in TopkOrders(aggregate_adaptive(rn).merged) :
                rn' = AfterFinalize(
                          finalize_window_adaptive(rn, sorted_items, jsds))
       \/ /\ rn.kind = "static"
          /\ \E trav \in SS2_Traversals(rn.stream_summaries, rn.b_orders, 1, 1) :
                rn' = AfterFinalize(finalize_window_static(rn, trav))
    /\ UNCHANGED <<sketch_vars, window_vars, ctl>>

(***************************************************************************)
(* The controller methods of AdaptiveSSRunner on their own: a runner whose *)
(* L, L_t, L_prev and prev_freqs hold what earlier windows may have left,  *)
(* then _update_L, _update_L_t and _update_q.                              *)
(***************************************************************************)
MaxCtlN == 2
SomeFreqs == [x \in {"a"} |-> One]
CtlStates ==
    {[NewRunner("adaptive", n, alpha) EXCEPT
          !.L = l, !.L_t = lt, !.L_prev = lp, !.prev_freqs = pf, !.freqs = pf] :
        n \in 1..MaxCtlN, alpha \in Alphas,
        l \in JsdValues, lt \in JsdValues, lp \in JsdValues,
        pf \in {EmptyMap, SomeFreqs}}

CtlConstruct(c) ==
    /\ ctl.kind = "none"
    /\ ctl' = c
    /\ UNCHANGED <<sketch_vars, window_vars, rn>>

CtlUpdateL(jsds) ==
    /\ ctl.kind = "adaptive" /\ ctl.err = "ok"
    /\ ctl' = update_L(ctl, jsds)
    /\ UNCHANGED <<sketch_vars, window_vars, rn>>

CtlUpdateLt ==
    /\ ctl.kind = "adaptive" /\ ctl.err = "ok"
    /\ ctl' = update_L_t(ctl)
    /\ UNCHANGED <<sketch_vars, window_vars, rn>>

CtlUpdateQ ==
    /\ ctl.kind = "adaptive" /\ ctl.err = "ok"
    /\ ctl' = update_q(ctl)
    /\ UNCHANGED <<sketch_vars, window_vars, rn>>

Next == \E item \in Items : Insert(item)

NextAgg ==
    \/ \E i \in 1..NumWorkers, item \in WorkerItems : WorkerInsert(i, item)
    \/ \E input \in AggInputs, args \in AggArgs :
          Aggregate(input, args[1], args[2])

NextPair == \E item \in Items : InsertBoth(item)

NextEst ==
    \/ \E item \in EstItems : EstInsert(item)
    \/ \E item \in EstItems, count \in EstCounts, overestimation \in EstOvers :
          InsertWithEstimate(item, count, overestimation)

NextMerge ==
    \/ \E item \in MergeItems : MergeInsert(item)
    \/ \E item \in MergeItems, count \in EstCounts, overestimation \in EstOvers :
          MergeElement(item, count, overestimation)

NextOps ==
    \/ \E item \in OpsItems : OpsInsert(item)
    \/ \E item \in OpsItems, args \in ValidArgs :
          OpsInsertWithEstimate(item, args[1], args[2])
    \/ \E item \in OpsItems, args \in ValidArgs :
          OpsMergeElement(item, args[1], args[2])

NextRun ==
    \/ \E kind \in RunnerKinds, n \in 1..MaxRunN :
          Construct(kind, n, MainAlpha)
    \/ InitializeSketches
    \/ \E partition_id \in 1..NumWorkers, item \in RunItems :
          InsertItem(partition_id, item)
    \/ FinalizeWindow

NextCtl ==
    \/ \E c \in CtlStates : CtlConstruct(c)
    \/ \E jsds \in [1..NumWorkers -> JsdValues] : CtlUpdateL(jsds)
    \/ CtlUpdateLt
    \/ CtlUpdateQ

(* A sketch populated only by insert. *)
Spec == Init /\ [][Next]_vars

(* Two sketches of equal capacity receiving the same insert calls. *)
SpecPair == Init /\ [][NextPair]_vars

(* A sketch populated by insert and insert_with_estimate. *)
SpecEst == Init /\ [][NextEst]_vars

(* One window: worker sketches populated by insert, then aggregated. *)
SpecAgg == Init /\ [][NextAgg]_vars

(* A sketch populated by insert and merge_element. *)
SpecMerge == Init /\ [][NextMerge]_vars

(* Both implementations under the same insert, insert_with_estimate and
   merge_element calls with valid arguments. *)
SpecOps == Init /\ [][NextOps]_vars

(* A runner driven by the window loop of evaluate_method. *)
SpecRun == Init /\ [][NextRun]_vars

(* The controller methods of the adaptive runner, called on their own. *)
SpecCtl == Init /\ [][NextCtl]_vars

(***************************************************************************)
(* Properties.                                                             *)
(***************************************************************************)
Tracked(s) == DOMAIN s.elements
Size(s) == Cardinality(DOMAIN s.elements)
over_of(s, item) == s.elements[item].overestimation

(* C1: for every capacity q >= 1, after any sequence of insert calls on a
   fresh sketch the number of tracked items is at most q. *)
C1_BoundedSize ==
    ss.capacity >= 1 => Size(ss) <= ss.capacity

(* an insert has just evicted a victim from a sketch holding q items *)
C1_Witness ==
    /\ ss.capacity >= 1
    /\ last.op = "insert" /\ last.victim # NoItem
    /\ Size(ss) = ss.capacity

(* C2: for every capacity q >= 1, total_count() equals the number of insert
   calls made so far, evicting inserts included. *)
C2_TotalCount ==
    ss.capacity >= 1 => total_count(ss) = inserts

(* after an eviction, with items spread over at least two buckets *)
C2_Witness ==
    /\ ss.capacity >= 1
    /\ last.victim # NoItem
    /\ Cardinality(DOMAIN ss.buckets) >= 2
    /\ inserts >= 4

(* C3: for every tracked item x,
   true_count(x) <= count(x) <= true_count(x) + overestimation(x), where
   true_count(x) counts every insert(x) since the sketch was created. *)
C3_OverestimationBound ==
    \A x \in Tracked(ss) :
        /\ true_count[x] <= count_of(ss, x)
        /\ count_of(ss, x) <= true_count[x] + over_of(ss, x)

(* a tracked item that was evicted and re-admitted: its count overestimates
   its true count, by less than its overestimation *)
C3_Witness ==
    \E x \in Tracked(ss) :
        /\ over_of(ss, x) > 0
        /\ true_count[x] < count_of(ss, x)
        /\ true_count[x] > count_of(ss, x) - over_of(ss, x)

(* C4: for every capacity q >= 1, every item inserted more than
   (number of inserts) / q times is tracked, whichever victims were chosen. *)
C4_HeavyHitter ==
    ss.capacity >= 1 =>
        \A x \in Items :
            true_count[x] * ss.capacity > inserts => contains(ss, x)

(* a heavy hitter that entered by eviction, while another inserted item is
   no longer tracked *)
C4_Witness ==
    /\ ss.capacity >= 2
    /\ \E x \in Tracked(ss) :
          /\ true_count[x] * ss.capacity > inserts
          /\ over_of(ss, x) > 0
    /\ \E y \in Items : true_count[y] > 0 /\ ~contains(ss, y)

(* C5: insert(item) of an untracked item into a full sketch (capacity q >= 1
   holding q items) evicts a member of min_bucket, whose count c is the
   minimum over the tracked items, and leaves item tracked with count c + 1
   and overestimation c. *)
C5_Eviction ==
    [][(/\ last'.op = "insert"
        /\ ss.capacity >= 1
        /\ ~contains(ss, last'.item)
        /\ Size(ss) >= ss.capacity)
       => LET c == ss.buckets[ss.min_bucket].count
          IN  /\ last'.victim \in ss.buckets[ss.min_bucket].elements
              /\ \A y \in Tracked(ss) : c <= count_of(ss, y)
              /\ count_of(ss, last'.victim) = c
              /\ ~contains(ss', last'.victim)
              /\ contains(ss', last'.item)
              /\ count_of(ss', last'.item) = c + 1
              /\ over_of(ss', last'.item) = c]_vars

(* the last insert evicted a victim whose count was at least 2 *)
C5_Witness ==
    /\ last.op = "insert" /\ last.victim # NoItem
    /\ contains(ss, last.item)
    /\ over_of(ss, last.item) >= 2

(* scenario S1 has run to its end on a sketch of capacity 3 *)
S1Done == ss.capacity = 3 /\ s1_prefix = Len(S1)

(* C6 as stated: after stream S1 on capacity 3, a is tracked with count 6
   and overestimation 0, the other two slots hold two of {b,c,d,e}, and
   get_max_overestimation() is 1. *)
C6_S1_AsStated ==
    S1Done =>
        /\ contains(ss, "a")
        /\ count_of(ss, "a") = 6
        /\ over_of(ss, "a") = 0
        /\ Size(ss) = 3
        /\ Tracked(ss) \ {"a"} \subseteq {"b", "c", "d", "e"}
        /\ get_max_overestimation(ss) = 1

(* C6 (amended): after stream S1 on capacity 3, a is tracked with count 5
   and overestimation 0, the other two slots hold two of {b,c,d,e}, and
   get_max_overestimation() is 2. *)
C6_S1 ==
    S1Done =>
        /\ contains(ss, "a")
        /\ count_of(ss, "a") = 5
        /\ over_of(ss, "a") = 0
        /\ Size(ss) = 3
        /\ Tracked(ss) \ {"a"} \subseteq {"b", "c", "d", "e"}
        /\ get_max_overestimation(ss) = 2

C6_Witness ==
    S1Done /\ inserts = Len(S1) /\ last.item = "a"

(* C7: insert(x) never decreases the count of an item tracked before and
   after the call; every tracked item other than x and the evicted victim
   keeps its count and overestimation; a tracked x gains exactly 1 and keeps
   its overestimation; an untracked x admitted while there is room gets
   count 1 and overestimation 0. *)
C7_InsertFrame ==
    [][last'.op = "insert"
       => LET x == last'.item
              v == last'.victim
          IN  /\ \A y \in Tracked(ss) \cap Tracked(ss') :
                     count_of(ss', y) >= count_of(ss, y)
              /\ \A y \in Tracked(ss) \ {x, v} :
                     /\ contains(ss', y)
                     /\ count_of(ss', y) = count_of(ss, y)
                     /\ over_of(ss', y) = over_of(ss, y)
              /\ contains(ss, x) =>
                     /\ contains(ss', x)
                     /\ count_of(ss', x) = count_of(ss, x) + 1
                     /\ over_of(ss', x) = over_of(ss, x)
              /\ (~contains(ss, x) /\ Size(ss) < ss.capacity) =>
                     /\ contains(ss', x)
                     /\ count_of(ss', x) = 1
                     /\ over_of(ss', x) = 0]_vars

(* the last insert incremented an item that carries an overestimation, next
   to other tracked items *)
C7_Witness ==
    /\ last.op = "insert" /\ last.victim = NoItem
    /\ contains(ss, last.item)
    /\ over_of(ss, last.item) > 0
    /\ count_of(ss, last.item) > over_of(ss, last.item) + 1
    /\ Size(ss) >= 2

(* item -> (count, overestimation) of the tracked items *)
CoreState(s) ==
    [x \in Tracked(s) |-> <<count_of(s, x), over_of(s, x)>>]

(* C8: two sketches of equal capacity that receive the same sequence of
   insert calls evict the same victims and hold identical tracked items,
   counts and overestimations. *)
C8_Deterministic ==
    CoreState(ss) = CoreState(ss2)

(* C9: no sketch with capacity < 1 exists or receives inserts: constructing
   one fails with InvalidArgument. *)
C9_CapacityValidated ==
    ss.capacity < 1 =>
        /\ last.op = "new"
        /\ last.err = "InvalidArgument"

(* C10: insert_with_estimate on a tracked item raises ValueError
   (DuplicateItem) and leaves the whole sketch unchanged. *)
C10_DuplicateRejected ==
    [][(last'.op = "insert_with_estimate" /\ contains(ss, last'.item))
       => (last'.err = "ValueError" /\ ss' = ss)]_vars

(* the last call was a rejected insert_with_estimate on a sketch that holds
   inserted items *)
C10_Witness ==
    /\ last.op = "insert_with_estimate"
    /\ last.err = "ValueError"
    /\ contains(ss, last.item)
    /\ inserts > 0

(* every bucket's successor in the list has a larger count *)
BucketsAscending(s) ==
    \A c \in DOMAIN s.buckets :
        s.buckets[c].next # None =>
            s.buckets[s.buckets[c].next].count > s.buckets[c].count

(* C11: out-of-range arguments of insert_with_estimate / merge_element are
   rejected, so no bucket has a count < 1, no element has an overestimation
   outside 0..count, and the bucket list stays in ascending order. *)
C11_ArgsValidated ==
    /\ \A c \in DOMAIN ss.buckets : ss.buckets[c].count >= 1
    /\ \A x \in Tracked(ss) :
          0 <= over_of(ss, x) /\ over_of(ss, x) <= count_of(ss, x)
    /\ BucketsAscending(ss)

(* C12: merge_element(item, dc, do) never evicts: a tracked item gains
   exactly dc in count and do in overestimation, an untracked item is
   admitted with count dc and overestimation do, and every other tracked
   item keeps its count and overestimation, also beyond the capacity. *)
C12_MergeElement ==
    [][last'.op = "merge_element"
       => LET x == last'.item
              dc == merge_args'[1]
              do == merge_args'[2]
          IN  /\ last'.err = "ok"
              /\ Tracked(ss') = Tracked(ss) \cup {x}
              /\ contains(ss, x) =>
                     /\ count_of(ss', x) = count_of(ss, x) + dc
                     /\ over_of(ss', x) = over_of(ss, x) + do
              /\ ~contains(ss, x) =>
                     /\ count_of(ss', x) = dc
                     /\ over_of(ss', x) = do
              /\ \A y \in Tracked(ss) \ {x} :
                     /\ count_of(ss', y) = count_of(ss, y)
                     /\ over_of(ss', y) = over_of(ss, y)]_vars

(* the last merge_element raised the count and the overestimation of a
   tracked item in a sketch holding more items than its capacity *)
C12_Witness ==
    /\ last.op = "merge_element"
    /\ ss.capacity >= 1
    /\ Size(ss) > ss.capacity
    /\ merge_args[1] >= 1 /\ merge_args[2] >= 1
    /\ count_of(ss, last.item) > merge_args[1]
    /\ over_of(ss, last.item) >= merge_args[2]

(***************************************************************************)
(* Properties of aggregate_summaries (SpecAgg).                            *)
(***************************************************************************)
(* the call returned *)
AggOk == agg.called /\ agg.result.err = "ok"
(* the sketches it was given, and the n it used *)
AggIn == [k \in 1..Len(agg.input) |-> workers[agg.input[k]]]
AggN == IF agg.n = None THEN agg.capacity ELSE agg.n
AggUnion == UNION {Tracked(AggIn[k]) : k \in 1..Len(AggIn)}
ItemsOf(rows) == {rows[k].item : k \in 1..Len(rows)}

(* sums of x's count and overestimation over the given sketches tracking x *)
SumCounts(x) ==
    SumSeq([k \in 1..Len(AggIn) |->
               IF contains(AggIn[k], x) THEN count_of(AggIn[k], x) ELSE 0])

SumOverests(x) ==
    SumSeq([k \in 1..Len(AggIn) |->
               IF contains(AggIn[k], x) THEN over_of(AggIn[k], x) ELSE 0])

(* C13: the merged sketch tracks exactly the union of the items tracked by
   the input sketches, each with the sum of its per-worker counts and the
   sum of its per-worker overestimations; merged.total_count() = N = the sum
   of the workers' total_count(). *)
C13_MergedSums ==
    AggOk =>
        LET merged == agg.result.merged
        IN  /\ Tracked(merged) = AggUnion
            /\ \A x \in Tracked(merged) :
                  /\ count_of(merged, x) = SumCounts(x)
                  /\ over_of(merged, x) = SumOverests(x)
            /\ agg.result.N =
                  SumSeq([k \in 1..Len(AggIn) |-> total_count(AggIn[k])])
            /\ total_count(merged) = agg.result.N

(* an item tracked by two workers, with an overestimation in one of them,
   has been merged *)
C13_Witness ==
    /\ AggOk
    /\ \E x \in AggUnion, j, k \in 1..Len(AggIn) :
          /\ j # k
          /\ contains(AggIn[j], x) /\ contains(AggIn[k], x)
          /\ over_of(AggIn[j], x) > 0

(* aggregate_summaries of the workers in list order *)
AggRef == aggregate_summaries(workers, w_order, agg.capacity, agg.n)

(* C14: for every permutation of the input list aggregate_summaries yields
   the same merged item -> (count, overestimation) map, the same bucket
   counts, and the same N, top_n, C_t (as a set), omega_min and tau_sp. *)
C14_MergeCommutes ==
    (agg.called /\ Len(agg.input) = NumWorkers) =>
        LET ref == AggRef
            res == agg.result
        IN  /\ res.err = ref.err
            /\ CoreState(res.merged) = CoreState(ref.merged)
            /\ DOMAIN res.merged.buckets = DOMAIN ref.merged.buckets
            /\ res.N = ref.N
            /\ res.top_n = ref.top_n
            /\ Range(res.C_t) = Range(ref.C_t)
            /\ res.omega_min = ref.omega_min
            /\ res.tau_sp = ref.tau_sp

(* the workers were passed in another order than the list order, they hold
   different sketches, and an item is tracked by more than one of them *)
C14_Witness ==
    /\ AggOk
    /\ Len(agg.input) = NumWorkers
    /\ agg.input # [k \in 1..NumWorkers |-> k]
    /\ AggIn # workers
    /\ \E x \in AggUnion : Cardinality(agg.result.R_t[x]) >= 2
    /\ Len(agg.result.C_t) >= 2

(* C15: the f_hat of the rows of item_stats sum to N. *)
C15_FHatSum ==
    AggOk =>
        SumSeq([k \in 1..Len(agg.result.item_stats) |->
                   agg.result.item_stats[k].f_hat]) = agg.result.N

(* several items, one of them reported by more than one worker *)
C15_Witness ==
    /\ AggOk
    /\ Len(agg.result.item_stats) >= 2
    /\ agg.result.N >= 3
    /\ \E x \in AggUnion : Cardinality(agg.result.R_t[x]) >= 2

(* C16: for every row of item_stats (workers populated by insert),
   0 <= p_floor <= p_hat <= p_ceil <= 1. *)
C16_FloorHatCeil ==
    AggOk =>
        \A k \in 1..Len(agg.result.item_stats) :
            LET row == agg.result.item_stats[k]
            IN  /\ FLeq(Zero, row.p_floor)
                /\ FLeq(row.p_floor, row.p_hat)
                /\ FLeq(row.p_hat, row.p_ceil)
                /\ FLeq(row.p_ceil, One)

(* a row whose floor is below and whose ceiling is above its p_hat *)
C16_Witness ==
    /\ AggOk
    /\ \E k \in 1..Len(agg.result.item_stats) :
          LET row == agg.result.item_stats[k]
          IN  /\ FLess(row.p_floor, row.p_hat)
              /\ FLess(row.p_hat, row.p_ceil)
              /\ FLess(row.p_ceil, One)

(* sum of total_count() over the workers R_t lists for x *)
CoverOf(x) ==
    SumSeq([k \in 1..Len(AggIn) |->
               IF (k - 1) \in agg.result.R_t[x]
               THEN total_count(AggIn[k]) ELSE 0])

OmegaOf(x) ==
    LET k == CHOOSE j \in 1..Len(agg.result.item_stats) :
                 agg.result.item_stats[j].item = x
    IN  agg.result.item_stats[k].omega

(* C17 as stated: for every item tracked by at least one of the m workers
   (N > 0), omega = C / N with C summed over exactly the workers of
   R_t[item], and omega lies in [1/m, 1]. *)
C17_OmegaRange_AsStated ==
    (AggOk /\ agg.result.N > 0) =>
        \A x \in AggUnion :
            /\ OmegaOf(x) = Frac(CoverOf(x), agg.result.N)
            /\ FLeq(Frac(1, Len(AggIn)), OmegaOf(x))
            /\ FLeq(OmegaOf(x), One)

(* all the given sketches have the same total_count() *)
EqualTotals ==
    \A j, k \in 1..Len(AggIn) : total_count(AggIn[j]) = total_count(AggIn[k])

(* C17 (amended): omega = C / N with C summed over exactly the workers of
   R_t[item]; omega lies in (0, 1], and in [1/m, 1] when all m workers have
   the same total_count(). *)
C17_OmegaRange ==
    (AggOk /\ agg.result.N > 0) =>
        \A x \in AggUnion :
            /\ OmegaOf(x) = Frac(CoverOf(x), agg.result.N)
            /\ FLess(Zero, OmegaOf(x))
            /\ FLeq(OmegaOf(x), One)
            /\ EqualTotals => FLeq(Frac(1, Len(AggIn)), OmegaOf(x))

(* workers of equal, positive totals, and an item that only one reports *)
C17_Witness ==
    /\ AggOk
    /\ Len(AggIn) >= 2
    /\ agg.result.N > 0
    /\ EqualTotals
    /\ \E x \in AggUnion : FLess(OmegaOf(x), One)

(* C18: top_n holds the min(n, number of items) rows of largest p_hat, ties
   broken by repr of the key; C_t is top_n followed by exactly the rows
   outside top_n whose p_ceil > 1/n; no item appears in C_t twice. *)
C18_TopAndCandidates ==
    AggOk =>
        LET rows == agg.result.item_stats
            top_n == agg.result.top_n
            C_t == agg.result.C_t
            rest == Range(rows) \ Range(top_n)
        IN  /\ Len(top_n) = Min(AggN, Len(rows))
            /\ Range(top_n) \subseteq Range(rows)
            /\ Cardinality(ItemsOf(top_n)) = Len(top_n)
            /\ \A x \in Range(top_n), y \in rest : TopKeyLess(x, y)
            /\ \A j, k \in 1..Len(top_n) :
                   j < k => TopKeyLess(top_n[j], top_n[k])
            /\ SubSeq(C_t, 1, Len(top_n)) = top_n
            /\ Range(C_t) =
                   Range(top_n) \cup
                   {y \in rest : y.p_ceil[1] * AggN > y.p_ceil[2]}
            /\ Cardinality(ItemsOf(C_t)) = Len(C_t)

(* more rows than n, a tie in p_hat across the cut, one row outside top_n
   that is a challenger *)
C18_Witness ==
    /\ AggOk
    /\ AggN >= 1
    /\ Len(agg.result.item_stats) > AggN
    /\ Len(agg.result.C_t) > Len(agg.result.top_n)
    /\ \E x \in Range(agg.result.top_n) :
          \E y \in Range(agg.result.item_stats) \ Range(agg.result.top_n) :
              FEq(x.p_hat, y.p_hat)

(* C19: omega_min is the least omega over C_t and tau_sp the residual
   1 - omega of rank min(floor(0.95 * |C_t|), |C_t| - 1) (from 0, ascending)
   over C_t; both are 0 when C_t is empty; tau_sp <= 1 - omega_min. *)
C19_OmegaMinTauSp ==
    AggOk =>
        LET C_t == agg.result.C_t
            omega_min == agg.result.omega_min
            tau_sp == agg.result.tau_sp
            len == Len(C_t)
            idx == Min((95 * len) \div 100, len - 1)
            below == {k \in 1..len : FLess(FSub(One, C_t[k].omega), tau_sp)}
            upto == {k \in 1..len : FLeq(FSub(One, C_t[k].omega), tau_sp)}
        IN  IF C_t = <<>>
            THEN omega_min = Zero /\ tau_sp = Zero
            ELSE /\ \E k \in 1..len : omega_min = C_t[k].omega
                 /\ \A k \in 1..len : FLeq(omega_min, C_t[k].omega)
                 /\ \E k \in 1..len : tau_sp = FSub(One, C_t[k].omega)
                 /\ Cardinality(below) <= idx
                 /\ Cardinality(upto) > idx
                 /\ FLeq(tau_sp, FSub(One, omega_min))

(* candidates with different coverage *)
C19_Witness ==
    /\ AggOk
    /\ \E j, k \in 1..Len(agg.result.C_t) :
          FLess(agg.result.C_t[j].omega, agg.result.C_t[k].omega)

(* the call was given no sketch, or only sketches tracking nothing *)
AggEmptyInput == agg.called /\ AggUnion = {}

(* C20: aggregate_summaries over an empty list, or over sketches that hold
   nothing, returns normally a merged sketch with total_count() = 0 and
   N = 0, top_n = [], C_t = [], omega_min = 0, tau_sp = 0. *)
C20_EmptyAggregate ==
    AggEmptyInput =>
        /\ agg.result.err = "ok"
        /\ total_count(agg.result.merged) = 0
        /\ Tracked(agg.result.merged) = {}
        /\ agg.result.N = 0
        /\ agg.result.top_n = <<>>
        /\ agg.result.C_t = <<>>
        /\ agg.result.omega_min = Zero
        /\ agg.result.tau_sp = Zero

(* the empty list was aggregated with n left to default to capacity 0 *)
C20_Witness ==
    /\ agg.called
    /\ agg.input = <<>>
    /\ agg.n = None /\ agg.capacity = 0

(* C21: aggregate_summaries does not mutate its inputs: over the call every
   worker sketch keeps its tracked items, counts, overestimations, bucket
   list, max_overestimation and distinct_count. *)
C21_InputsUnchanged ==
    agg.called =>
        \A i \in 1..NumWorkers :
            /\ CoreState(workers[i]) = CoreState(agg.before[i])
            /\ workers[i].buckets = agg.before[i].buckets
            /\ workers[i].min_bucket = agg.before[i].min_bucket
            /\ workers[i].max_bucket = agg.before[i].max_bucket
            /\ get_max_overestimation(workers[i]) =
                   get_max_overestimation(agg.before[i])
            /\ distinct_count(workers[i]) = distinct_count(agg.before[i])

(* several non-empty workers, one with an overestimated item, have been
   aggregated into a sketch that differs from each of them *)
C21_Witness ==
    /\ AggOk
    /\ Len(agg.input) = NumWorkers
    /\ \A i \in 1..NumWorkers : Tracked(workers[i]) # {}
    /\ \E i \in 1..NumWorkers : get_max_overestimation(workers[i]) > 0
    /\ \A i \in 1..NumWorkers : agg.result.merged # workers[i]

(***************************************************************************)
(* Properties of the runners (SpecRun) and of the controller (SpecCtl).    *)
(***************************************************************************)
(* the items tracked by the worker sketches of the current window *)
RunUnion ==
    UNION {Tracked(rn.stream_summaries[i]) : i \in 1..Len(rn.stream_summaries)}

(* C22: in every runner's finalize_window the capacity passed to the
   aggregator is at least the number of distinct items tracked across the
   worker sketches, and the merged sketch holds at most capacity items. *)
C22_CapacityCoversInputs ==
    rn.finalized > 0 =>
        /\ Cardinality(RunUnion) <= rn.agg_capacity
        /\ Size(rn.merged) <= rn.merged.capacity

(* C23: the capacity q of the adaptive runner is never below n (it is n
   after __init__, and at least n after every _update_q) and is finite. *)
C23_QAtLeastN ==
    ctl.kind = "adaptive" =>
        /\ ctl.q[2] > 0
        /\ FLeq(Frac(ctl.n, 1), ctl.q)
        /\ ctl.op = "__init__" => ctl.q = Frac(ctl.n, 1)

(* _update_q has chosen a q above n *)
C23_Witness ==
    /\ ctl.op = "_update_q"
    /\ FLess(Zero, ctl.L_t)
    /\ FLess(ctl.L_t, ctl.L)
    /\ FLess(Frac(ctl.n, 1), ctl.q)

(* C24: when L and L_t are both 0 the capacity chosen for the next window
   is exactly n. *)
C24_Stationary ==
    (ctl.op = "_update_q" /\ FEq(ctl.L, Zero) /\ FEq(ctl.L_t, Zero)) =>
        FEq(ctl.q, Frac(ctl.n, 1))

(* _update_q has run with L = L_t = 0 *)
C24_Witness ==
    /\ ctl.op = "_update_q"
    /\ FEq(ctl.L, Zero) /\ FEq(ctl.L_t, Zero)
    /\ ctl.n > 1
    /\ ctl.q[1] = ctl.n * ctl.q[2]

(* C25: the capacity chosen for the next window is the integer
   ceil(n * (1 + L + L_t)), at least n. *)
C25_IntegerCeil ==
    ctl.op = "_update_q" =>
        /\ ctl.q[1] % ctl.q[2] = 0
        /\ FLeq(FMul(Frac(ctl.n, 1), FAdd(FAdd(One, ctl.L), ctl.L_t)), ctl.q)
        /\ FLess(ctl.q,
                 FAdd(FMul(Frac(ctl.n, 1), FAdd(FAdd(One, ctl.L), ctl.L_t)), One))
        /\ FLeq(Frac(ctl.n, 1), ctl.q)

(* C26: _update_L_t leaves L_t = 0 when there is no previous distribution,
   and otherwise L_t = alpha * L_prev + (1 - alpha) * jsd with the runner's
   alpha and a jsd in [0, 1]. *)
C26_TemporalDivergence ==
    ctl.op = "_update_L_t" =>
        IF ctl.prev_freqs = EmptyMap
        THEN ctl.err = "ok" /\ FEq(ctl.L_t, Zero)
        ELSE /\ ctl.err = "ok"
             /\ FLeq(FMul(ctl.alpha, ctl.L_prev), ctl.L_t)
             /\ FLeq(ctl.L_t, FAdd(FMul(ctl.alpha, ctl.L_prev),
                                   FSub(One, ctl.alpha)))

(* the global p_hat of the window: key -> count / N of the merged sketch *)
PHatGlobal ==
    [x \in Tracked(rn.merged) |-> Frac(count_of(rn.merged, x), rn.N)]

(* C27: after finalize_window of window w the adaptive runner stores window
   w's global p_hat as the distribution the next window is compared with,
   and window w's L_t as the previous temporal divergence. *)
C27_StateCarried ==
    (rn.kind = "adaptive" /\ rn.finalized > 0) =>
        /\ rn.freqs = PHatGlobal \/ rn.prev_freqs = PHatGlobal
        /\ rn.L_prev = rn.L_t

(* C28: finalize_window on a window with at least one item completes
   without raising and publishes, in descending count order, the merged
   items with p_hat > 1/n, each with (count, count / N). *)
C28_FinalizeCompletes ==
    (rn.finalized > 0 /\ rn.N > 0) =>
        LET est == rn.estimated_counts_and_freqs
        IN  /\ rn.err = "ok"
            /\ {est[k].key : k \in 1..Len(est)} =
                   {x \in Tracked(rn.merged) :
                        count_of(rn.merged, x) * rn.n > rn.N}
            /\ \A k \in 1..Len(est) :
                   /\ est[k].count = count_of(rn.merged, est[k].key)
                   /\ est[k].freq = Frac(est[k].count, rn.N)
            /\ \A j, k \in 1..Len(est) : j < k => est[j].count >= est[k].count

(* C29: finalize_window of the adaptive runner on a window without items
   (N = 0) raises nothing and leaves q = n. *)
C29_DegenerateWindow ==
    (rn.kind = "adaptive" /\ rn.finalized > 0 /\ rn.inserted = 0) =>
        /\ rn.err = "ok"
        /\ FEq(rn.q, Frac(rn.n, 1))

(* C30: an exception raised while a window is processed does not end the
   window loop while later windows remain. *)
C30_StreamContinues ==
    rn.pc = "raised" => rn.window + 1 >= NumWindows

(* C31: for every window of the stream the loop calls initialize_sketches
   exactly once, then the insert_item calls, then finalize_window exactly
   once; initialize_sketches leaves m empty sketches of capacity q, and
   finalize_window is never called on a window that was not initialized. *)
C31_WindowProtocol ==
    /\ rn.op = "initialize_sketches" =>
           /\ Len(rn.stream_summaries) = rn.m
           /\ \A i \in 1..rn.m :
                  /\ Tracked(rn.stream_summaries[i]) = {}
                  /\ total_count(rn.stream_summaries[i]) = 0
                  /\ rn.stream_summaries[i].capacity = CapacityOf(rn.q)
    /\ rn.pc = "insert" =>
           rn.initialized = rn.window + 1 /\ rn.finalized = rn.window
    /\ rn.pc = "loop" =>
           rn.initialized = rn.window /\ rn.finalized = rn.window
    /\ rn.pc = "raised" =>
           rn.initialized = NumWindows /\ rn.finalized = NumWindows

(***************************************************************************)
(* Further properties of the sketch.                                       *)
(***************************************************************************)
(* the items that have been passed to insert so far *)
Seen == {x \in Items : true_count[x] > 0}

(* C33: distinct_count() never decreases and, in a sketch of capacity
   q >= 1 populated by insert, equals the number of distinct items inserted
   so far: an item is counted once, however often it is evicted and
   admitted again. *)
C33_DistinctCount ==
    [][/\ distinct_count(ss') >= distinct_count(ss)
       /\ ss'.capacity >= 1 =>
              distinct_count(ss') =
                  Cardinality({x \in Items : true_count'[x] > 0})]_vars

(* the bucket counts met by following next from curr, at most fuel steps *)
RECURSIVE Walk(_, _, _)
Walk(s, curr, fuel) ==
    IF curr = None \/ fuel = 0 \/ curr \notin DOMAIN s.buckets THEN <<>>
    ELSE <<curr>> \o Walk(s, s.buckets[curr].next, fuel - 1)

(* the same following prev from curr *)
RECURSIVE WalkBack(_, _, _)
WalkBack(s, curr, fuel) ==
    IF curr = None \/ fuel = 0 \/ curr \notin DOMAIN s.buckets THEN <<>>
    ELSE <<curr>> \o WalkBack(s, s.buckets[curr].prev, fuel - 1)

Reverse(seq) == [k \in 1..Len(seq) |-> seq[Len(seq) + 1 - k]]

BucketListWellFormed(s) ==
    LET fuel == Cardinality(DOMAIN s.buckets) + 1
        fwd == Walk(s, s.min_bucket, fuel)
        bwd == WalkBack(s, s.max_bucket, fuel)
    IN  /\ Range(fwd) = DOMAIN s.buckets
        /\ Len(fwd) = Cardinality(DOMAIN s.buckets)
        /\ \A k \in 1..(Len(fwd) - 1) :
               s.buckets[fwd[k]].count < s.buckets[fwd[k + 1]].count
        /\ fwd # <<>> => fwd[Len(fwd)] = s.max_bucket
        /\ fwd = <<>> => s.min_bucket = None /\ s.max_bucket = None
        /\ bwd = Reverse(fwd)
        /\ \A c \in DOMAIN s.buckets :
               /\ s.buckets[c].count = c
               /\ s.buckets[c].elements # {}

(* C34: after every insert, insert_with_estimate and merge_element call
   with valid arguments, following next from min_bucket reaches max_bucket
   through strictly increasing counts, following prev from max_bucket gives
   the same list reversed, the buckets met are exactly the values of the
   buckets dict, each under its own count, and none of them is empty. *)
C34_BucketList ==
    BucketListWellFormed(ss) /\ BucketListWellFormed(ss2)

(* merge_element has moved a tracked item past another bucket, its old
   bucket being removed *)
C34_Witness ==
    /\ last.op = "merge_element"
    /\ count_of(ss, last.item) > merge_args[1]
    /\ \E c \in DOMAIN ss.buckets :
          /\ count_of(ss, last.item) - merge_args[1] < c
          /\ c < count_of(ss, last.item)
    /\ (count_of(ss, last.item) - merge_args[1]) \notin DOMAIN ss.buckets

(* every tracked item is in the element set of its parent bucket and of no
   other bucket, and the buckets hold tracked items only *)
ElementsPartitioned(s) ==
    /\ \A x \in Tracked(s) :
           LET pb == s.elements[x].parent_bucket
           IN  /\ pb \in DOMAIN s.buckets
               /\ x \in s.buckets[pb].elements
               /\ \A c \in (DOMAIN s.buckets) \ {pb} :
                      x \notin s.buckets[c].elements
    /\ \A c \in DOMAIN s.buckets : s.buckets[c].elements \subseteq Tracked(s)

(* C35: after every insert, insert_with_estimate and merge_element call the
   bucket element sets partition the tracked items, and an evicted victim is
   neither a key of elements nor a member of a bucket. *)
C35_Partition ==
    /\ ElementsPartitioned(ss)
    /\ ElementsPartitioned(ss2)
    /\ last.victim # NoItem =>
           /\ last.victim \notin Tracked(ss)
           /\ \A c \in DOMAIN ss.buckets :
                  last.victim \notin ss.buckets[c].elements

(* the last insert evicted a victim from a bucket that other items stay in *)
C35_Witness ==
    /\ last.op = "insert" /\ last.victim # NoItem
    /\ Size(ss) >= 2
    /\ Cardinality(ss.buckets[ss.min_bucket].elements) >= 1
    /\ Cardinality(DOMAIN ss.buckets) >= 2

(* x was inserted into a sketch of capacity q >= 1 and is not tracked: it
   has been evicted *)
IsEvicted(x) == ss.capacity >= 1 /\ x \in Seen /\ ~contains(ss, x)

(* C36 as stated: once an item has been evicted it is never tracked again,
   whatever is inserted later. *)
C36_NoReentry_AsStated ==
    [][\A x \in Items : IsEvicted(x) => ~contains(ss', x)]_vars

(* C36 (amended): an evicted item stays untracked until it is inserted
   again; the next insert of it makes it tracked again, as a new element
   with count min_bucket.count + 1 and overestimation min_bucket.count. *)
C36_Reentry ==
    [][\A x \in Items :
          IsEvicted(x) =>
              IF last'.op = "insert" /\ last'.item = x
              THEN /\ contains(ss', x)
                   /\ count_of(ss', x) = ss.buckets[ss.min_bucket].count + 1
                   /\ over_of(ss', x) = ss.buckets[ss.min_bucket].count
                   /\ last'.victim \in ss.buckets[ss.min_bucket].elements
              ELSE ~contains(ss', x)]_vars

(* the last insert admitted, by eviction, an item that had been inserted
   and evicted before *)
C36_Witness ==
    /\ ss.capacity >= 1
    /\ last.op = "insert" /\ last.victim # NoItem
    /\ true_count[last.item] >= 2
    /\ contains(ss, last.item)
    /\ over_of(ss, last.item) = count_of(ss, last.item) - 1

(* the largest overestimation of a tracked element, 0 when none is tracked *)
MaxOverTracked(s) ==
    IF Tracked(s) = {} THEN 0
    ELSE CHOOSE v \in {over_of(s, x) : x \in Tracked(s)} :
             \A x \in Tracked(s) : over_of(s, x) <= v

(* C37: in both implementations, after any sequence of insert,
   insert_with_estimate and merge_element calls with valid arguments,
   get_max_overestimation() is the largest overestimation of the tracked
   elements (0 when none is tracked). *)
C37_MaxOverestimation ==
    /\ get_max_overestimation(ss) = MaxOverTracked(ss)
    /\ get_max_overestimation(ss2) = MaxOverTracked(ss2)

OverWithinCount(s) ==
    \A x \in Tracked(s) :
        /\ over_of(s, x) <= count_of(s, x)
        /\ count_of(s, x) >= 1

(* C38: in every state of a sketch populated by insert, insert_with_estimate
   and merge_element with valid arguments, every tracked element has
   overestimation <= parent_bucket.count and parent_bucket.count >= 1. *)
C38_OverWithinCount ==
    OverWithinCount(ss) /\ OverWithinCount(ss2)

(* an element admitted by eviction next to one whose overestimation, built
   by insert_with_estimate or merge_element, equals its count *)
C38_Witness ==
    /\ last.op = "insert" /\ last.victim # NoItem
    /\ over_of(ss, last.item) >= 1
    /\ \E x \in Tracked(ss) \ {last.item} :
          over_of(ss, x) = count_of(ss, x)

(* count of min_bucket, 0 for an empty sketch *)
MinCount(s) == IF s.min_bucket = None THEN 0 ELSE s.buckets[s.min_bucket].count

(* C39: in a sketch of capacity q >= 1 populated only by insert, every
   tracked element's overestimation is at most min_bucket.count and at most
   (number of inserts) / q, and min_bucket.count never decreases once the
   sketch holds q items. *)
C39_OverAtMostMin ==
    [][ss'.capacity >= 1 =>
          /\ \A x \in Tracked(ss') :
                 /\ over_of(ss', x) <= MinCount(ss')
                 /\ over_of(ss', x) * ss'.capacity <= inserts'
          /\ Size(ss) >= ss.capacity => MinCount(ss') >= MinCount(ss)]_vars

(* a full sketch whose last insert evicted a victim and raised
   min_bucket.count to the overestimation of a tracked element *)
C39_Witness ==
    /\ ss.capacity >= 2
    /\ last.op = "insert" /\ last.victim # NoItem
    /\ MinCount(ss) >= 2
    /\ \E x \in Tracked(ss) :
          /\ over_of(ss, x) = MinCount(ss)
          /\ (over_of(ss, x) + 1) * ss.capacity > inserts

(* the bucket counts in list order, from min_bucket *)
BucketOrderOf(s) == Walk(s, s.min_bucket, Cardinality(DOMAIN s.buckets) + 1)

(* C40: a sketch of sketches/stream_summary.py and one of
   sketches/StreamSummary.py that receive the same insert,
   insert_with_estimate and merge_element calls with positive counts, and
   evict the same victims, hold the same tracked items, counts and
   overestimations, in the same bucket order. *)
C40_ImplementationsAgree ==
    /\ CoreState(ss) = CoreState(ss2)
    /\ BucketOrderOf(ss) = BucketOrderOf(ss2)
    /\ \A c \in DOMAIN ss.buckets :
           ss.buckets[c].elements = ss2.buckets[c].elements

(* merge_element has moved a tracked item out of a bucket that was not
   min_bucket into a new bucket: one scan started at the old bucket, the
   other at min_bucket *)
C40_Witness ==
    /\ last.op = "merge_element"
    /\ count_of(ss2, last.item) > merge_args[1]
    /\ \E c \in DOMAIN ss2.buckets :
          c < count_of(ss2, last.item) - merge_args[1]
    /\ ss2.buckets[count_of(ss2, last.item)].elements = {last.item}
    /\ ss.buckets[count_of(ss, last.item)].elements = {last.item}

=============================================================================
